---- MODULE Spec2Model ----
(***************************************************************************)
(* FractalChain chain state: blocks, transactions, the account ledger and  *)
(* the mempool (src/core), the miner's block building (src/consensus) and  *)
(* the entry points that reach add_block / add_transaction.                *)
(*                                                                         *)
(* Amounts are whole coins (Python floats in the source).  SHA-256 is the  *)
(* collision-free wrapper sha256(s) = "H(" s ")" over the serialised       *)
(* string, so every hash is a string and string concatenation keeps the    *)
(* source's meaning.                                                       *)
(***************************************************************************)
EXTENDS Integers, Sequences, FiniteSets, TLC

VARIABLES chain, pending_transactions, balances, ret,
          pc, t_block, t_tx, t_prev, t_hashes, t_filtered, acked, mining, cache,
          call, stakes, total_staked, slash_history,
          net, wire, clock, uuid, handled, last_traffic, received, passed

vars == <<chain, pending_transactions, balances, ret,
          pc, t_block, t_tx, t_prev, t_hashes, t_filtered, acked, mining, cache,
          call, stakes, total_staked, slash_history,
          net, wire, clock, uuid, handled, last_traffic, received, passed>>

chain_vars == <<chain, pending_transactions, balances, ret>>
(* mining: the Miner object of the node and the position of its mine_block *)
(* call, with what happened since stop_mining was last called             *)
caller_vars == <<pc, t_block, t_tx, t_prev, t_hashes, t_filtered, acked>>
(* cache: the LRUCache object, none before it is constructed; its field    *)
(* uses is not a field of the object: it lists the keys in the order of    *)
(* their last use (a put, or a get that hit), the latest last              *)
thread_vars == <<caller_vars, mining, cache>>

(* the StakingSystem object *)
staking_vars == <<stakes, total_staked, slash_history>>

(* call: the last call of an operation outside the chain, with its         *)
(* arguments and what it returned                                          *)
(* net: the running P2PNode objects with their Blockchain; wire: the        *)
(* messages in flight, one FIFO per directed connection; clock:            *)
(* time.time() in milliseconds; uuid: how many uuid4 values each node has  *)
(* drawn, by use; received: the number of messages that processes outside  *)
(* net have sent.  handled, last_traffic and passed record what happened:  *)
(* how often a node dispatched each msg_id since its last clear, when a    *)
(* node last read a message on each connection, and the time and size of   *)
(* every message that check_rate_limit let through, by node and peer_id.   *)
net_vars == <<net, wire, clock, uuid, handled, last_traffic, received, passed>>

aux_vars == <<call, stakes, total_staked, slash_history,
              net, wire, clock, uuid, handled, last_traffic, received, passed>>

(* ------------------------------ bounds -------------------------------- *)

MaxChain == 3
MaxPending == 2
HexLen == 8
adjustment_interval == 2
MaxRecent == 3
MaxHalvings == 35
MaxLeaves == 4
MaxStakes == 2
MaxSlashes == 1

(* ----------------------------- constants ------------------------------ *)

COINBASE == "COINBASE"
GENESIS == "GENESIS"
ZeroHash == "0000"
initial_reward == 50
halving_interval == 210000
max_count == 100
genesis_timestamp == 1640000000
epsilon == 1
target_block_time == 600
max_adjustment_factor == 4
min_stake_amount == 1000
min_lock_period == 1000
annual_return_rate == 5
slash_percentage == 10
baseline == 1500000

Addresses == {"a1", "a2"}
Timestamps == {genesis_timestamp + 600}

(* ------------------------------- crypto ------------------------------- *)

sha256(s) == "H(" \o s \o ")"

(* json.dumps of a dictionary given as <<key, rendered value>> pairs in key order *)
json_str(x) == "\"" \o x \o "\""

json_num(n) == ToString(n)

RECURSIVE json_items(_, _, _, _)
json_items(pairs, k, item_sep, key_sep) ==
    IF k > Len(pairs) THEN ""
    ELSE (IF k > 1 THEN item_sep ELSE "")
         \o json_str(pairs[k][1]) \o key_sep \o pairs[k][2]
         \o json_items(pairs, k + 1, item_sep, key_sep)

json_dumps(pairs, item_sep, key_sep) == "{" \o json_items(pairs, 1, item_sep, key_sep) \o "}"

(* hash_object: sort_keys=True, separators=(',', ':') *)
hash_object(pairs) == sha256(json_dumps(pairs, ",", ":"))

export_public_key(addr) == "pk_" \o addr

get_address(pk) == CHOOSE a \in Addresses : export_public_key(a) = pk

KeyPair_sign(addr, message) == "sig(" \o addr \o "," \o message \o ")"

KeyPair_verify(message, signature, address, public_key_hex) ==
    /\ \E a \in Addresses : export_public_key(a) = public_key_hex
    /\ get_address(public_key_hex) = address
    /\ signature = KeyPair_sign(get_address(public_key_hex), message)

(* ---------------------------- transactions ---------------------------- *)

(* to_dict(include_signature=False), keys in sorted order *)
to_dict_unsigned(tx) ==
    <<<<"amount", json_num(tx.amount)>>, <<"fee", json_num(tx.fee)>>,
      <<"recipient", json_str(tx.recipient)>>, <<"sender", json_str(tx.sender)>>,
      <<"timestamp", json_num(tx.timestamp)>>>>

calculate_tx_hash(tx) == hash_object(to_dict_unsigned(tx))

signing_message(tx) == json_dumps(to_dict_unsigned(tx), ", ", ": ")

Transaction(sender, recipient, amount, fee, timestamp, signature, public_key, tx_hash) ==
    LET raw == [sender |-> sender, recipient |-> recipient, amount |-> amount,
                fee |-> fee, timestamp |-> timestamp, signature |-> signature,
                public_key |-> public_key, tx_hash |-> tx_hash]
    IN  IF tx_hash = "" THEN [raw EXCEPT !.tx_hash = calculate_tx_hash(raw)] ELSE raw

sign(tx, addr) ==
    [tx EXCEPT !.signature = KeyPair_sign(addr, signing_message(tx)),
               !.public_key = export_public_key(addr),
               !.tx_hash = calculate_tx_hash(tx)]

verify_signature(tx) ==
    IF tx.signature = "" \/ tx.public_key = "" THEN FALSE
    ELSE KeyPair_verify(signing_message(tx), tx.signature, tx.sender, tx.public_key)

tx_is_valid(tx) ==
    IF tx.amount <= 0 THEN FALSE
    ELSE IF tx.fee < 0 THEN FALSE
    ELSE IF tx.sender = COINBASE THEN TRUE
    ELSE verify_signature(tx)

create_coinbase(miner_address, block_reward, block_height, now) ==
    Transaction(COINBASE, miner_address, block_reward, 0, now,
                "coinbase_block_" \o ToString(block_height), "", "")

tx_from_dict(data) ==
    Transaction(data.sender, data.recipient, data.amount, data.fee, data.timestamp,
                data.signature, data.public_key, data.tx_hash)

(* ------------------------------- merkle ------------------------------- *)

_hash_pair(left, right) == sha256(left \o right)

next_level(level) ==
    [k \in 1..((Len(level) + 1) \div 2) |->
        _hash_pair(level[2 * k - 1],
                   IF 2 * k <= Len(level) THEN level[2 * k] ELSE level[2 * k - 1])]

RECURSIVE _build_tree(_)
_build_tree(level) == IF Len(level) > 1 THEN _build_tree(next_level(level)) ELSE level[1]

compute_merkle_root(transaction_hashes) ==
    IF Len(transaction_hashes) = 0 THEN sha256("") ELSE _build_tree(transaction_hashes)

(* self.tree of MerkleTree: the levels from the leaves to the root *)
RECURSIVE tree_levels(_)
tree_levels(level) ==
    IF Len(level) > 1 THEN <<level>> \o tree_levels(next_level(level)) ELSE <<level>>

(* list.index: the 0-based position of the first occurrence, -1 if none *)
index_of(transactions, transaction_hash) ==
    IF \E k \in 1..Len(transactions) : transactions[k] = transaction_hash
    THEN (CHOOSE k \in 1..Len(transactions) :
             /\ transactions[k] = transaction_hash
             /\ \A j \in 1..(k - 1) : transactions[j] # transaction_hash) - 1
    ELSE -1

proof_step_swapped(current_level, current_index) ==
    IF current_index % 2 = 0
    THEN IF current_index + 1 < Len(current_level)
         THEN <<current_level[current_index + 2], "left">>
         ELSE <<current_level[current_index + 1], "left">>
    ELSE <<current_level[current_index], "right">>

(* one round of the loop of get_proof; current_index is 0-based *)
proof_step(current_level, current_index) ==
    IF current_index % 2 = 0
    THEN IF current_index + 1 < Len(current_level)
         THEN <<current_level[current_index + 2], "right">>
         ELSE <<current_level[current_index + 1], "right">>
    ELSE <<current_level[current_index], "left">>

RECURSIVE proof_from(_, _, _)
proof_from(tree, level, current_index) ==
    IF level > Len(tree) - 1 THEN <<>>
    ELSE <<proof_step(tree[level], current_index)>>
         \o proof_from(tree, level + 1, current_index \div 2)

(* MerkleTree(transactions).get_proof: <<proof>>, or <<>> for None *)
get_proof(transactions, transaction_hash) ==
    IF index_of(transactions, transaction_hash) < 0 THEN <<>>
    ELSE <<proof_from(tree_levels(transactions), 1, index_of(transactions, transaction_hash))>>

RECURSIVE fold_proof(_, _, _)
fold_proof(current_hash, proof, k) ==
    IF k > Len(proof) THEN current_hash
    ELSE fold_proof(IF proof[k][2] = "left"
                    THEN sha256(proof[k][1] \o current_hash)
                    ELSE sha256(current_hash \o proof[k][1]), proof, k + 1)

verify_proof(transaction_hash, merkle_root, proof) ==
    fold_proof(transaction_hash, proof, 1) = merkle_root

(* ------------------------------- blocks ------------------------------- *)

NoProof == <<>>

calculate_merkle_root(txs) ==
    IF Len(txs) = 0 THEN sha256("")
    ELSE compute_merkle_root([k \in 1..Len(txs) |-> txs[k].tx_hash])

proof_to_dict(p) ==
    <<<<"fractal_data_hash", json_str(p.fractal_data_hash)>>,
      <<"fractal_dimension", json_num(p.fractal_dimension)>>,
      <<"fractal_seed", json_str(p.fractal_seed)>>,
      <<"nonce", json_num(p.nonce)>>,
      <<"solution_point_imag", json_num(p.solution_point_imag)>>,
      <<"solution_point_real", json_num(p.solution_point_real)>>,
      <<"timestamp", json_num(p.timestamp)>>>>

header_fields(b) ==
    <<<<"index", json_num(b.index)>>, <<"merkle_root", json_str(b.merkle_root)>>,
      <<"miner_address", json_str(b.miner_address)>>,
      <<"previous_hash", json_str(b.previous_hash)>>,
      <<"timestamp", json_num(b.timestamp)>>>>

calculate_hash(b) ==
    IF b.fractal_proof # NoProof
    THEN hash_object(<<<<"fractal_proof",
                         json_dumps(proof_to_dict(b.fractal_proof[1]), ",", ":")>>>>
                     \o header_fields(b))
    ELSE hash_object(header_fields(b))

Block(index, timestamp, transactions, previous_hash, miner_address, fractal_proof, merkle_root, block_hash, difficulty_target, header_difficulty_bits) ==
    LET raw == [index |-> index, timestamp |-> timestamp, transactions |-> transactions,
                previous_hash |-> previous_hash, miner_address |-> miner_address,
                fractal_proof |-> fractal_proof, merkle_root |-> merkle_root,
                block_hash |-> block_hash, difficulty_target |-> difficulty_target,
                header_difficulty_bits |-> header_difficulty_bits]
        withRoot == IF merkle_root = ""
                    THEN [raw EXCEPT !.merkle_root = calculate_merkle_root(transactions)]
                    ELSE raw
    IN  IF block_hash = "" /\ fractal_proof # NoProof
        THEN [withRoot EXCEPT !.block_hash = calculate_hash(withRoot)]
        ELSE withRoot

create_genesis_block ==
    LET genesis_tx == Transaction(GENESIS, GENESIS, 0, 0, genesis_timestamp, "genesis", "", "")
        b == Block(0, genesis_timestamp, <<genesis_tx>>, ZeroHash, GENESIS, NoProof,
                   "", "", 1500, 16)
        rooted == [b EXCEPT !.merkle_root = calculate_merkle_root(b.transactions)]
    IN  [rooted EXCEPT !.block_hash = calculate_hash(rooted)]

coinbase_txs(b) == SelectSeq(b.transactions, LAMBDA tx : tx.sender = COINBASE)

(* previous_block is <<>> for None, <<block>> otherwise *)
is_valid(b, previous_block) ==
    IF b.index = 0 THEN b.previous_hash = ZeroHash
    ELSE IF previous_block # <<>> /\ b.previous_hash # previous_block[1].block_hash THEN FALSE
    ELSE IF previous_block # <<>> /\ b.index # previous_block[1].index + 1 THEN FALSE
    ELSE IF b.merkle_root # calculate_merkle_root(b.transactions) THEN FALSE
    ELSE IF \E k \in 1..Len(b.transactions) : ~tx_is_valid(b.transactions[k]) THEN FALSE
    ELSE IF Len(coinbase_txs(b)) # 1 THEN FALSE
    ELSE IF b.block_hash # calculate_hash(b) THEN FALSE
    ELSE TRUE

(* ----------------------------- chain state ---------------------------- *)

get_latest_block(c) == IF Len(c) > 0 THEN <<c[Len(c)]>> ELSE <<>>

get_chain_length(c) == Len(c)

balance_of(bal, address) == IF address \in DOMAIN bal THEN bal[address] ELSE 0

set_balance(bal, address, value) ==
    [a \in (DOMAIN bal) \cup {address} |-> IF a = address THEN value ELSE bal[a]]

apply_tx(bal, tx) ==
    LET debited == IF tx.sender # COINBASE /\ tx.sender # GENESIS
                   THEN set_balance(bal, tx.sender,
                                    balance_of(bal, tx.sender) - (tx.amount + tx.fee))
                   ELSE bal
    IN  set_balance(debited, tx.recipient, balance_of(debited, tx.recipient) + tx.amount)

RECURSIVE apply_txs(_, _, _)
apply_txs(bal, txs, k) ==
    IF k > Len(txs) THEN bal ELSE apply_txs(apply_tx(bal, txs[k]), txs, k + 1)

_update_balances(bal, block) == apply_txs(bal, block.transactions, 1)

RECURSIVE pending_outgoing(_, _, _)
pending_outgoing(pend, address, k) ==
    IF k > Len(pend) THEN 0
    ELSE (IF pend[k].sender = address THEN pend[k].amount + pend[k].fee ELSE 0)
         + pending_outgoing(pend, address, k + 1)

get_balance(bal, pend, address) ==
    balance_of(bal, address) - pending_outgoing(pend, address, 1)

tx_hashes_of(block) == {block.transactions[k].tx_hash : k \in 1..Len(block.transactions)}

remove_included(pend, hashes) == SelectSeq(pend, LAMBDA tx : tx.tx_hash \notin hashes)

RECURSIVE pow2(_)
pow2(n) == IF n = 0 THEN 1 ELSE 2 * pow2(n - 1)

(* the halving that starts one block late *)
halvings_late(height) == IF height = 0 THEN 0 ELSE (height - 1) \div halving_interval

halvings_of(height) == height \div halving_interval

(* A reward is the record [n, e2, e10] of the value n / (2^e2 * 10^e10)    *)
(* coins, so that 50.0 / 2 ** halvings and 0.00000001 are both exact.      *)
minimum_reward == [n |-> 1, e2 |-> 0, e10 |-> 8]

(* initial_reward / 2^k < 1e-8, both sides multiplied by 2^k * 5^8 * 2^8   *)
(* and divided by 2^8                                                      *)
below_minimum(k) == k >= 8 /\ initial_reward * 390625 < pow2(k - 8)

(* get_block_reward at chain length height *)
reward_of(height) ==
    IF below_minimum(halvings_of(height)) THEN minimum_reward
    ELSE [n |-> initial_reward, e2 |-> halvings_of(height), e10 |-> 0]

(* whole coins, for the heights at which the reward is a whole number *)
block_reward_at(height) == reward_of(height).n \div pow2(reward_of(height).e2)

get_block_reward(c) == block_reward_at(get_chain_length(c))

get_difficulty(c) ==
    IF Len(c) > 0 THEN <<c[Len(c)].difficulty_target, c[Len(c)].header_difficulty_bits>>
    ELSE <<1500, 16>>

(* insertion in front of the entries of equal fee *)
RECURSIVE insert_before_equal_fee(_, _)
insert_before_equal_fee(sorted, tx) ==
    IF Len(sorted) = 0 THEN <<tx>>
    ELSE IF sorted[Len(sorted)].fee > tx.fee THEN Append(sorted, tx)
    ELSE Append(insert_before_equal_fee(SubSeq(sorted, 1, Len(sorted) - 1), tx),
                sorted[Len(sorted)])

(* stable insertion of tx behind every entry whose fee is not smaller *)
RECURSIVE insert_by_fee(_, _)
insert_by_fee(sorted, tx) ==
    IF Len(sorted) = 0 THEN <<tx>>
    ELSE IF sorted[Len(sorted)].fee >= tx.fee THEN Append(sorted, tx)
    ELSE Append(insert_by_fee(SubSeq(sorted, 1, Len(sorted) - 1), tx), sorted[Len(sorted)])

RECURSIVE sorted_by_fee(_, _)
sorted_by_fee(pend, k) ==
    IF k = 0 THEN <<>> ELSE insert_by_fee(sorted_by_fee(pend, k - 1), pend[k])

get_pending_transactions(pend, limit) ==
    LET sorted_txs == sorted_by_fee(pend, Len(pend))
    IN  SubSeq(sorted_txs, 1, IF Len(sorted_txs) < limit THEN Len(sorted_txs) ELSE limit)

is_valid_chain(c) ==
    \A i \in 2..Len(c) : is_valid(c[i], <<c[i - 1]>>)

(* validation that forgets to pass the tip to is_valid *)
add_block_accepts_no_tip(c, block) == is_valid(block, <<>>)

(* add_block: the validation against the current tip *)
add_block_accepts(c, block) == is_valid(block, get_latest_block(c))

(* add_transaction: the three rejections, in the order of the code *)
has_sufficient_balance(bal, pend, tx) ==
    tx.sender = COINBASE \/ ~(get_balance(bal, pend, tx.sender) < tx.amount + tx.fee)

(* duplicate check comparing whole transactions instead of their tx_hash *)
is_duplicate_by_equality(pend, tx) == \E k \in 1..Len(pend) : pend[k] = tx

is_duplicate(pend, tx) == \E k \in 1..Len(pend) : pend[k].tx_hash = tx.tx_hash

add_transaction_result(bal, pend, tx) ==
    IF ~tx_is_valid(tx) THEN "invalid"
    ELSE IF ~has_sufficient_balance(bal, pend, tx) THEN "insufficient"
    ELSE IF is_duplicate(pend, tx) THEN "duplicate"
    ELSE "added"

(* --------------------------- proof of work ---------------------------- *)
(* A header hash is its sequence of hex characters, each a number 0..15.   *)
(* SHA-256 of the header is not computed: the nonce n names a header whose *)
(* hash starts with exactly n zero characters (at most HexLen).  The box-  *)
(* counting dimension of the bitmap at a solution point is the point's     *)
(* real part, in thousandths, and the fit is good (r^2 > 0.95) exactly     *)
(* when the imaginary part is 0.                                           *)

hex_digest(nonce) == [k \in 1..HexLen |-> IF k <= nonce THEN 0 ELSE 15]

calculate_header_hash(b) ==
    hex_digest(IF b.fractal_proof # NoProof THEN b.fractal_proof[1].nonce ELSE 0)

(* header_hash[:k] *)
slice_to(s, k) ==
    IF k >= 0 THEN SubSeq(s, 1, IF k < Len(s) THEN k ELSE Len(s))
    ELSE SubSeq(s, 1, IF Len(s) + k > 0 THEN Len(s) + k ELSE 0)

(* '0' * k *)
zero_chars(k) == [i \in 1..k |-> 0]

(* the check that drops the last hex character of the prefix *)
verify_header_hash_short(header_hash, difficulty_bits) ==
    LET hex_zeros == (difficulty_bits \div 4) - 1
    IN  slice_to(header_hash, hex_zeros) = zero_chars(hex_zeros)

verify_header_hash(header_hash, difficulty_bits) ==
    LET hex_zeros == difficulty_bits \div 4
    IN  slice_to(header_hash, hex_zeros) = zero_chars(hex_zeros)

generate_fractal_seed(prev_hash, miner_address, nonce) ==
    sha256(prev_hash \o miner_address \o ToString(nonce))

abs(x) == IF x < 0 THEN -x ELSE x

calculate_dimension(seed, point_real, point_imag) ==
    [dimension |-> point_real, r_squared_ok |-> (point_imag = 0)]

verify_solution(seed, point_real, point_imag, claimed_dimension, target_dimension) ==
    LET d == calculate_dimension(seed, point_real, point_imag)
    IN  /\ abs(d.dimension - target_dimension) < epsilon
        /\ d.r_squared_ok
        /\ 10 * abs(d.dimension - claimed_dimension) < 1

(* BlockVerifier.verify_block: <<is_valid, message>> *)
verify_block(block, previous_block) ==
    IF ~is_valid(block, previous_block) THEN <<FALSE, "Block structure is invalid">>
    ELSE IF block.index = 0 THEN <<TRUE, "Genesis block verified">>
    ELSE IF block.fractal_proof = NoProof THEN <<FALSE, "Block missing fractal proof">>
    ELSE IF ~verify_header_hash(calculate_header_hash(block), block.header_difficulty_bits)
         THEN <<FALSE, "Header hash does not meet difficulty requirement">>
    ELSE IF generate_fractal_seed(block.previous_hash, block.miner_address,
                                  block.fractal_proof[1].nonce)
                # block.fractal_proof[1].fractal_seed
         THEN <<FALSE, "Fractal seed mismatch">>
    ELSE IF ~verify_solution(block.fractal_proof[1].fractal_seed,
                             block.fractal_proof[1].solution_point_real,
                             block.fractal_proof[1].solution_point_imag,
                             block.fractal_proof[1].fractal_dimension,
                             block.difficulty_target)
         THEN <<FALSE, "Fractal dimension does not match target">>
    ELSE <<TRUE, "Block verified">>

quick_verify(block) ==
    IF block.index = 0 THEN TRUE
    ELSE IF block.fractal_proof = NoProof THEN FALSE
    ELSE verify_header_hash(calculate_header_hash(block), block.header_difficulty_bits)

(* ------------------------------- miner -------------------------------- *)

RECURSIVE sum_fees(_, _)
sum_fees(txs, k) == IF k > Len(txs) THEN 0 ELSE txs[k].fee + sum_fees(txs, k + 1)

(* the nonce loop: the first nonce from 1 whose header passes the pre-filter, 0 if none *)
RECURSIVE search_nonce(_, _)
search_nonce(nonce, header_difficulty) ==
    IF nonce > HexLen THEN 0
    ELSE IF verify_header_hash(hex_digest(nonce), header_difficulty) THEN nonce
    ELSE search_nonce(nonce + 1, header_difficulty)

(* Miner.mine_block: <<block>>, or <<>> when the search gives up *)
mine_block(c, pend, miner_address, now) ==
    LET transactions == get_pending_transactions(pend, max_count)
        block_reward == get_block_reward(c)
        total_fees == sum_fees(transactions, 1)
        coinbase == create_coinbase(miner_address, block_reward + total_fees,
                                    get_chain_length(c), now)
        latest == get_latest_block(c)
        previous_hash == IF latest # <<>> THEN latest[1].block_hash ELSE ZeroHash
        block_index == IF latest # <<>> THEN latest[1].index + 1 ELSE 0
        difficulty == get_difficulty(c)
        candidate == Block(block_index, now, <<coinbase>> \o transactions, previous_hash,
                           miner_address, NoProof, "", "", difficulty[1], difficulty[2])
        nonce == search_nonce(1, difficulty[2])
        proof == [nonce |-> nonce,
                  fractal_seed |-> generate_fractal_seed(previous_hash, miner_address, nonce),
                  solution_point_real |-> difficulty[1], solution_point_imag |-> 0,
                  fractal_dimension |-> difficulty[1], fractal_data_hash |-> "bitmap",
                  timestamp |-> now]
        solved == [candidate EXCEPT !.fractal_proof = <<proof>>]
    IN  IF nonce = 0 THEN <<>>
        ELSE <<[solved EXCEPT !.block_hash = calculate_hash(solved)]>>

(* ------------------------------- inputs ------------------------------- *)

Signers == Addresses \cup {"none"}

PaymentAmounts == {<<20, 1>>, <<60, 0>>, <<0, 0>>}

payment(s, r, af, ts, signer) ==
    LET tx == Transaction(s, r, af[1], af[2], ts, "", "", "")
    IN  IF signer = "none" THEN tx ELSE sign(tx, signer)

(* a1 pays a2: signed by a1, signed by the wrong key, or unsigned *)
PaymentInputs ==
    {payment("a1", "a2", af, ts, signer) :
        af \in PaymentAmounts, ts \in Timestamps, signer \in Signers}

CoinbaseAmounts == {initial_reward, initial_reward + 1}

CoinbaseInputs(height) ==
    {create_coinbase("a1", am, height, ts) : am \in CoinbaseAmounts, ts \in Timestamps}

(* what a peer may put into the dictionary handed to Transaction.from_dict *)
PeerTxDicts ==
    {[tx EXCEPT !.tx_hash = h] :
        tx \in {p \in PaymentInputs : verify_signature(p)}, h \in {"", "forged"}}

TxInputs(height) == PaymentInputs \cup CoinbaseInputs(height)

BlockTxLists(height) ==
    LET objs == TxInputs(height)
    IN  {<<>>} \cup {<<t>> : t \in objs}
        \cup {<<cb, t>> : cb \in CoinbaseInputs(height),
                          t \in {o \in objs : o.amount = 60 => o.signature = ""}}
        \cup {<<cb, t>> : cb \in {c \in CoinbaseInputs(height) : c.amount = initial_reward},
                          t \in {o \in objs : o.amount = 60}}
        \cup {<<t, cb>> : cb \in {c \in CoinbaseInputs(height) : c.amount = initial_reward},
                          t \in {o \in objs : o.amount = 20}}

(* a block built like the tests build it: constructor, then block_hash set *)
built_block(index, txs, previous_hash, miner, merkle_root, forge_hash) ==
    LET b == Block(index, genesis_timestamp + 600, txs, previous_hash, miner, NoProof,
                   merkle_root, "", 1500, 16)
    IN  [b EXCEPT !.block_hash = IF forge_hash THEN "forged" ELSE calculate_hash(b)]

(* blocks offered to add_block: well-formed on the tip, or with one defect *)
OfferedBlocks(c) ==
    LET tip == c[Len(c)]
        lists == BlockTxLists(Len(c))
        short == {l \in lists : Len(l) = 1 /\ l[1].sender = COINBASE}
    IN  {built_block(tip.index + 1, txs, tip.block_hash, "a1", "", FALSE) : txs \in lists}
        \cup {built_block(0, <<>>, ZeroHash, "a1", "", FALSE)}
        \cup {built_block(tip.index + 2, txs, tip.block_hash, "a1", "", FALSE) : txs \in short}
        \cup {built_block(tip.index + 1, txs, ZeroHash, "a1", "", FALSE) : txs \in short}
        \cup {built_block(tip.index + 1, txs, tip.block_hash, "a1", "forged", FALSE) : txs \in short}
        \cup {built_block(tip.index + 1, txs, tip.block_hash, "a1", "", TRUE) : txs \in short}

Miners == {"a1"}

(* Miner.__init__.  at is the position of the mine_block call: idle when   *)
(* none is running, while at the loop test of line 108, search inside      *)
(* find_fractal_solution.  stopped, begun, points and last record what     *)
(* happened since stop_mining was called: stopped holds from the call of   *)
(* stop_mining until the mine_block call that is running then, or else the *)
(* next one, has returned; begun and points count the nonce iterations and *)
(* search points started meanwhile; last is how the last call returned     *)
Miner ==
    [is_mining |-> FALSE, at |-> "idle", candidate |-> <<>>, nonce |-> 0, attempts |-> 0,
     point |-> 0, calls |-> 0, sleep_until |-> 0, stopped |-> FALSE, begun |-> 0, points |-> 0,
     last |-> [stopped |-> FALSE, block |-> <<>>]]

(* miner.py 63-106: the flag is set and the candidate block is built *)
enter_mine_block(m, c, pend, miner_address, now) ==
    LET transactions == get_pending_transactions(pend, max_count)
        coinbase == create_coinbase(miner_address,
                                    get_block_reward(c) + sum_fees(transactions, 1),
                                    get_chain_length(c), now)
        latest == get_latest_block(c)
        previous_hash == IF latest # <<>> THEN latest[1].block_hash ELSE ZeroHash
        block_index == IF latest # <<>> THEN latest[1].index + 1 ELSE 0
        difficulty == get_difficulty(c)
        candidate == Block(block_index, now, <<coinbase>> \o transactions, previous_hash,
                           miner_address, NoProof, "", "", difficulty[1], difficulty[2])
    IN  [m EXCEPT !.is_mining = TRUE, !.at = "while", !.candidate = <<candidate>>,
                  !.nonce = 0, !.attempts = 0, !.point = 0, !.calls = @ + 1]

(* miner.py 188-196: return None, and the finally clause *)
return_none(m) ==
    [m EXCEPT !.is_mining = FALSE, !.at = "idle", !.candidate = <<>>,
              !.last = [stopped |-> m.stopped, block |-> <<>>],
              !.stopped = FALSE, !.begun = 0, !.points = 0]

(* miner.py 108-149: the loop test, and one nonce up to the pre-filter *)
nonce_iteration(m, max_iterations) ==
    IF ~(m.is_mining /\ m.attempts < max_iterations) THEN return_none(m)
    ELSE LET passes == verify_header_hash(hex_digest(m.nonce + 1),
                                          m.candidate[1].header_difficulty_bits)
         IN  [m EXCEPT !.nonce = @ + 1, !.attempts = @ + 1,
                       !.at = IF passes THEN "search" ELSE "while",
                       !.point = IF passes THEN 1 ELSE 0,
                       !.begun = IF m.stopped THEN @ + 1 ELSE @]

(* miner.py 151-183: the proof around the solution, the block hash, and    *)
(* the finally clause                                                      *)
return_block(m) ==
    LET candidate == m.candidate[1]
        proof == [nonce |-> m.nonce,
                  fractal_seed |-> generate_fractal_seed(candidate.previous_hash,
                                                         candidate.miner_address, m.nonce),
                  solution_point_real |-> candidate.difficulty_target,
                  solution_point_imag |-> 0,
                  fractal_dimension |-> candidate.difficulty_target,
                  fractal_data_hash |-> "bitmap", timestamp |-> candidate.timestamp]
        solved == [candidate EXCEPT !.fractal_proof = <<proof>>]
    IN  [m EXCEPT !.is_mining = FALSE, !.at = "idle", !.candidate = <<>>,
                  !.last = [stopped |-> m.stopped,
                            block |-> <<[solved EXCEPT !.block_hash = calculate_hash(solved)]>>],
                  !.stopped = FALSE, !.begun = 0, !.points = 0]

(* fractal_math.py 355-366: one search point of find_fractal_solution;     *)
(* matches says whether the dimension at this point meets the target       *)
search_point(m, matches, max_attempts) ==
    IF matches THEN return_block([m EXCEPT !.points = IF m.stopped THEN @ + 1 ELSE @])
    ELSE [m EXCEPT !.point = IF m.point < max_attempts THEN @ + 1 ELSE 0,
                   !.at = IF m.point < max_attempts THEN "search" ELSE "while",
                   !.points = IF m.stopped THEN @ + 1 ELSE @]

(* Miner.stop_mining *)
stop_mining(m) == [m EXCEPT !.is_mining = FALSE, !.stopped = TRUE]

(* ------------------------------- cache -------------------------------- *)
(* An OrderedDict is the sequence of its <<key, value>> pairs in insertion *)
(* order; ttl is <<>> for None and <<seconds>> otherwise; times are the    *)
(* milliseconds of clock.                                                  *)

NoCache == <<>>

od_keys(od) == [k \in 1..Len(od) |-> od[k][1]]

od_has(od, key) == \E k \in 1..Len(od) : od[k][1] = key

od_get(od, key) == (CHOOSE k \in 1..Len(od) : od[k][1] = key)

od_delete(od, key) == SelectSeq(od, LAMBDA pair : pair[1] # key)

(* the entry stays where it is *)
keep_in_place(od, key) == od

(* OrderedDict.move_to_end *)
move_to_end(od, key) == Append(od_delete(od, key), od[od_get(od, key)])

(* od[key] = value: in place for a key that is there, at the end otherwise *)
od_set(od, key, value) ==
    IF od_has(od, key) THEN [od EXCEPT ![od_get(od, key)] = <<key, value>>]
    ELSE Append(od, <<key, value>>)

dict_del(d, key) == [k \in DOMAIN d \ {key} |-> d[k]]

(* LRUCache.__init__ *)
LRUCache(max_size, ttl) ==
    [max_size |-> max_size, ttl |-> ttl, cache |-> <<>>, timestamps |-> [k \in {} |-> 0],
     hits |-> 0, misses |-> 0, uses |-> <<>>]

(* LRUCache.get: the object afterwards and <<value>>, or <<>> for None *)
LRUCache_get(c, key, now) ==
    IF ~od_has(c.cache, key)
    THEN [obj |-> [c EXCEPT !.misses = @ + 1], found |-> <<>>]
    ELSE IF c.ttl # <<>>
            /\ now - (IF key \in DOMAIN c.timestamps THEN c.timestamps[key] ELSE 0)
                   > 1000 * c.ttl[1]
    THEN [obj |-> [c EXCEPT !.cache = od_delete(@, key),
                            !.timestamps = dict_del(@, key),
                            !.misses = @ + 1],
          found |-> <<>>]
    ELSE [obj |-> [c EXCEPT !.cache = move_to_end(@, key), !.hits = @ + 1],
          found |-> <<c.cache[od_get(c.cache, key)][2]>>]

(* oldest_key = next(iter(self.cache)); del self.cache[oldest_key] *)
evict_oldest(od) == Tail(od)

(* LRUCache.put *)
LRUCache_put(c, key, value, now) ==
    IF od_has(c.cache, key)
    THEN [c EXCEPT !.cache = od_set(move_to_end(@, key), key, value),
                   !.timestamps = [k \in DOMAIN @ \cup {key} |-> IF k = key THEN now ELSE @[k]]]
    ELSE LET added == od_set(c.cache, key, value)
             stamped == [k \in DOMAIN c.timestamps \cup {key} |->
                            IF k = key THEN now ELSE c.timestamps[k]]
         IN  IF Len(added) > c.max_size
             THEN [c EXCEPT !.cache = evict_oldest(added),
                            !.timestamps = dict_del(stamped, added[1][1])]
             ELSE [c EXCEPT !.cache = added, !.timestamps = stamped]

(* LRUCache.delete *)
LRUCache_delete(c, key) ==
    IF od_has(c.cache, key)
    THEN [c EXCEPT !.cache = od_delete(@, key), !.timestamps = dict_del(@, key)]
    ELSE c

(* --------------------------- initial state ---------------------------- *)

NoBlock == <<>>
NoTx == <<>>
Threads == {"main", "rpc"}
NoCall == [op |-> "none", args |-> <<>>, result |-> <<>>]

(* no P2PNode is running *)
InitNet ==
    /\ net = [n \in {} |-> <<>>]
    /\ wire = [c \in {} |-> <<>>]
    /\ clock = 0
    /\ uuid = [n \in {} |-> <<>>]
    /\ handled = [n \in {} |-> <<>>]
    /\ last_traffic = [n \in {} |-> <<>>]
    /\ received = 0
    /\ passed = [n \in {} |-> <<>>]

InitChain ==
    /\ chain = <<create_genesis_block>>
    /\ balances = _update_balances(<<>>, create_genesis_block)
    /\ pending_transactions = <<>>
    /\ ret = [op |-> "init", ok |-> TRUE, why |-> "genesis"]
    /\ pc = [t \in Threads |-> "idle"]
    /\ t_block = [t \in Threads |-> NoBlock]
    /\ t_tx = [t \in Threads |-> NoTx]
    /\ t_prev = [t \in Threads |-> NoBlock]
    /\ t_hashes = [t \in Threads |-> {}]
    /\ t_filtered = [t \in Threads |-> <<>>]
    /\ acked = {}
    /\ mining = Miner
    /\ cache = NoCache
    /\ call = NoCall
    /\ stakes = [address \in {} |-> <<>>]
    /\ total_staked = 0
    /\ slash_history = <<>>

Init == InitChain /\ InitNet

(* ------------------------- sequential operations ---------------------- *)

(* an add_block that appends and applies the block before it validates it *)
add_block_before_validation(block) ==
    /\ chain' = Append(chain, block)
    /\ balances' = _update_balances(balances, block)
    /\ pending_transactions' = remove_included(pending_transactions, tx_hashes_of(block))
    /\ ret' = IF add_block_accepts(chain, block)
              THEN [op |-> "add_block", ok |-> TRUE, why |-> "added"]
              ELSE [op |-> "add_block", ok |-> FALSE, why |-> "invalid"]

(* Blockchain.add_block, whole call *)
add_block(block) ==
    IF ~add_block_accepts(chain, block)
    THEN /\ ret' = [op |-> "add_block", ok |-> FALSE, why |-> "invalid"]
         /\ UNCHANGED <<chain, balances, pending_transactions>>
    ELSE /\ chain' = Append(chain, block)
         /\ balances' = _update_balances(balances, block)
         /\ pending_transactions' = remove_included(pending_transactions, tx_hashes_of(block))
         /\ ret' = [op |-> "add_block", ok |-> TRUE, why |-> "added"]

(* Blockchain.add_transaction, whole call *)
add_transaction(tx) ==
    LET why == add_transaction_result(balances, pending_transactions, tx)
    IN  /\ pending_transactions' = IF why = "added" THEN Append(pending_transactions, tx)
                                   ELSE pending_transactions
        /\ ret' = [op |-> "add_transaction", ok |-> (why = "added"), why |-> why]
        /\ UNCHANGED <<chain, balances>>

AddBlock ==
    /\ Len(chain) < MaxChain
    /\ \E block \in OfferedBlocks(chain) : add_block(block)
    /\ UNCHANGED <<thread_vars, aux_vars>>

(* rpc_sendTransaction: build, sign when a key is given, add to the mempool *)
SendTransaction ==
    /\ Len(pending_transactions) < MaxPending
    /\ \E tx \in TxInputs(Len(chain)) : add_transaction(tx)
    /\ UNCHANGED <<thread_vars, aux_vars>>

(* _handle_new_transaction: Transaction.from_dict of the payload, then add *)
HandleNewTransaction ==
    /\ Len(pending_transactions) < MaxPending
    /\ \E data \in PeerTxDicts : add_transaction(tx_from_dict(data))
    /\ UNCHANGED <<thread_vars, aux_vars>>

(* _mining_loop: mine, re-validate against the tip, append *)
MineBlockAt(times) ==
    /\ Len(chain) < MaxChain
    /\ \E miner \in Miners, now \in times :
          LET block == mine_block(chain, pending_transactions, miner, now)
          IN  IF block # <<>> /\ verify_block(block[1], get_latest_block(chain))[1]
              THEN add_block(block[1])
              ELSE /\ ret' = [op |-> "mine_block", ok |-> FALSE, why |-> "invalid"]
                   /\ UNCHANGED <<chain, balances, pending_transactions>>
    /\ UNCHANGED <<thread_vars, aux_vars>>

MineBlock == MineBlockAt(Timestamps)

Next == AddBlock \/ SendTransaction \/ HandleNewTransaction \/ MineBlock

Spec == Init /\ [][Next]_vars

(* -------------------- add_block / add_transaction by threads ---------- *)
(* The RPC server runs on its own thread (main.py start), the P2P handlers *)
(* and the miner on the event loop; Blockchain holds no lock, so the       *)
(* statements of the two methods interleave between threads.               *)

ThreadBlocks(c) ==
    LET tip == c[Len(c)]
    IN  {built_block(tip.index + 1, txs, tip.block_hash, miner, "", FALSE) :
            miner \in Addresses,
            txs \in {<<cb>> : cb \in {x \in CoinbaseInputs(Len(c)) : x.amount = initial_reward}}}

ThreadTxs == {p \in PaymentInputs : verify_signature(p) /\ p.amount > 0}

return_to_idle(t) ==
    /\ pc' = [pc EXCEPT ![t] = "idle"]
    /\ t_block' = [t_block EXCEPT ![t] = NoBlock]
    /\ t_tx' = [t_tx EXCEPT ![t] = NoTx]
    /\ t_prev' = [t_prev EXCEPT ![t] = NoBlock]
    /\ t_hashes' = [t_hashes EXCEPT ![t] = {}]
    /\ t_filtered' = [t_filtered EXCEPT ![t] = <<>>]

goto(t, label) == pc' = [pc EXCEPT ![t] = label]

(* a caller enters add_block with a block built on the tip it saw *)
CallAddBlock(t) ==
    /\ pc[t] = "idle"
    /\ Len(chain) < MaxChain
    /\ \E block \in ThreadBlocks(chain) : t_block' = [t_block EXCEPT ![t] = <<block>>]
    /\ goto(t, "ab_validate")
    /\ UNCHANGED <<chain_vars, t_tx, t_prev, t_hashes, t_filtered, acked>>
    /\ UNCHANGED <<aux_vars, mining, cache>>

(* blockchain.py 212-215 *)
ab_validate(t) ==
    /\ pc[t] = "ab_validate"
    /\ IF is_valid(t_block[t][1], get_latest_block(chain))
       THEN /\ goto(t, "ab_append")
            /\ t_prev' = [t_prev EXCEPT ![t] = get_latest_block(chain)]
            /\ UNCHANGED <<t_block, t_tx, t_hashes, t_filtered>>
       ELSE return_to_idle(t)
    /\ UNCHANGED <<chain_vars, acked>>
    /\ UNCHANGED <<aux_vars, mining, cache>>

(* blockchain.py 218 *)
ab_append(t) ==
    /\ pc[t] = "ab_append"
    /\ chain' = Append(chain, t_block[t][1])
    /\ goto(t, "ab_balances")
    /\ UNCHANGED <<pending_transactions, balances, ret, t_block, t_tx, t_prev,
                   t_hashes, t_filtered, acked>>
    /\ UNCHANGED <<aux_vars, mining, cache>>

(* blockchain.py 221-224 *)
ab_balances(t) ==
    /\ pc[t] = "ab_balances"
    /\ balances' = _update_balances(balances, t_block[t][1])
    /\ goto(t, "ab_filter")
    /\ UNCHANGED <<chain, pending_transactions, ret, t_block, t_tx, t_prev,
                   t_hashes, t_filtered, acked>>
    /\ UNCHANGED <<aux_vars, mining, cache>>

(* blockchain.py 227-231, the list comprehension building the new list *)
ab_filter(t) ==
    /\ pc[t] = "ab_filter"
    /\ t_hashes' = [t_hashes EXCEPT ![t] = tx_hashes_of(t_block[t][1])]
    /\ t_filtered' = [t_filtered EXCEPT ![t] =
                         remove_included(pending_transactions, tx_hashes_of(t_block[t][1]))]
    /\ goto(t, "ab_store")
    /\ UNCHANGED <<chain_vars, t_block, t_tx, t_prev, acked>>
    /\ UNCHANGED <<aux_vars, mining, cache>>

(* blockchain.py 228, the assignment to self.pending_transactions; 233 *)
ab_store(t) ==
    /\ pc[t] = "ab_store"
    /\ pending_transactions' = t_filtered[t]
    /\ return_to_idle(t)
    /\ UNCHANGED <<chain, balances, ret, acked>>
    /\ UNCHANGED <<aux_vars, mining, cache>>

CallAddTransaction(t) ==
    /\ pc[t] = "idle"
    /\ Len(pending_transactions) < MaxPending
    /\ \E tx \in ThreadTxs : t_tx' = [t_tx EXCEPT ![t] = <<tx>>]
    /\ goto(t, "at_check")
    /\ UNCHANGED <<chain_vars, t_block, t_prev, t_hashes, t_filtered, acked>>
    /\ UNCHANGED <<aux_vars, mining, cache>>

(* blockchain.py 284-297 *)
at_check(t) ==
    /\ pc[t] = "at_check"
    /\ IF add_transaction_result(balances, pending_transactions, t_tx[t][1]) = "added"
       THEN /\ goto(t, "at_append")
            /\ UNCHANGED <<t_block, t_tx, t_prev, t_hashes, t_filtered>>
       ELSE return_to_idle(t)
    /\ UNCHANGED <<chain_vars, acked>>
    /\ UNCHANGED <<aux_vars, mining, cache>>

(* blockchain.py 299-300 *)
at_append(t) ==
    /\ pc[t] = "at_append"
    /\ pending_transactions' = Append(pending_transactions, t_tx[t][1])
    /\ acked' = acked \cup {t_tx[t][1].tx_hash}
    /\ return_to_idle(t)
    /\ UNCHANGED <<chain, balances, ret>>
    /\ UNCHANGED <<aux_vars, mining, cache>>

NextThreads ==
    \E t \in Threads :
        \/ CallAddBlock(t)
        \/ ab_validate(t)
        \/ ab_append(t)
        \/ ab_balances(t)
        \/ ab_filter(t)
        \/ ab_store(t)
        \/ CallAddTransaction(t)
        \/ at_check(t)
        \/ at_append(t)

SpecThreads == Init /\ [][NextThreads]_vars

(* ------------------------ difficulty adjustment ----------------------- *)
(* Fractal targets are in millionths here (round(x, 6) keeps six places),  *)
(* times in whole seconds; a ratio of two times is the pair <<n, d>> of    *)
(* its numerator and its positive denominator, never divided out.          *)

should_adjust_difficulty(block_height) ==
    block_height > 0 /\ block_height % adjustment_interval = 0

ratio_less(r, q) == r[1] * q[2] < q[1] * r[2]

RECURSIVE gcd(_, _)
gcd(a, b) == IF b = 0 THEN a ELSE gcd(b, a % b)

(* the same positive ratio in lowest terms *)
lowest_terms(r) == <<r[1] \div gcd(r[1], r[2]), r[2] \div gcd(r[1], r[2])>>

(* the limits taken as 1/8 and 8 *)
limit_adjustment_doubled(time_ratio) ==
    LET lowest == <<1, 2 * max_adjustment_factor>>
        highest == <<2 * max_adjustment_factor, 1>>
        raised == IF ratio_less(time_ratio, lowest) THEN lowest ELSE time_ratio
    IN  IF ratio_less(highest, raised) THEN highest ELSE raised

(* min(max(time_ratio, 1.0 / max_adjustment_factor), max_adjustment_factor) *)
limit_adjustment(time_ratio) ==
    LET lowest == <<1, max_adjustment_factor>>
        highest == <<max_adjustment_factor, 1>>
        raised == IF ratio_less(time_ratio, lowest) THEN lowest ELSE time_ratio
    IN  IF ratio_less(highest, raised) THEN highest ELSE raised

(* round(a / n) for n > 0, halves to the even neighbour *)
round_div(a, n) ==
    LET q == a \div n
        twice == 2 * (a - q * n)
    IN  IF twice < n THEN q
        ELSE IF twice > n THEN q + 1
        ELSE IF q % 2 = 0 THEN q ELSE q + 1

(* the adjustment that divides where it should multiply *)
adjust_fractal_target_inverted(current_target, adjustment_factor) ==
    LET deviation == current_target - baseline
        n == adjustment_factor[2]
        d == adjustment_factor[1]
        numerator == baseline * n + deviation * d
    IN  IF numerator < 1000000 * n THEN 1000000
        ELSE IF numerator > 2000000 * n THEN 2000000
        ELSE round_div(numerator, n)

(* both branches compute deviation / adjustment_factor *)
_adjust_fractal_target(current_target, adjustment_factor) ==
    LET deviation == current_target - baseline
        n == adjustment_factor[1]
        d == adjustment_factor[2]
        numerator == baseline * n + deviation * d
    IN  IF numerator < 1000000 * n THEN 1000000
        ELSE IF numerator > 2000000 * n THEN 2000000
        ELSE round_div(numerator, n)

(* int(x) cuts towards zero *)
int_div(a, n) == IF a >= 0 THEN a \div n ELSE -((-a) \div n)

_adjust_header_bits(current_bits, adjustment_factor) ==
    LET new_bits == int_div(current_bits * adjustment_factor[2], adjustment_factor[1])
        capped == IF new_bits > 32 THEN 32 ELSE new_bits
    IN  IF capped < 4 THEN 4 ELSE capped

(* recent_blocks: a sequence of blocks, of which the timestamps are read *)
calculate_new_difficulty(recent_blocks, current_difficulty, current_header_bits) ==
    IF Len(recent_blocks) < 2 THEN <<current_difficulty, current_header_bits>>
    ELSE LET actual_time == recent_blocks[Len(recent_blocks)].timestamp
                                - recent_blocks[1].timestamp
             expected_time == target_block_time * (Len(recent_blocks) - 1)
             time_ratio == IF expected_time > 0 THEN <<actual_time, expected_time>>
                           ELSE <<1, 1>>
             adjustment_factor == lowest_terms(limit_adjustment(time_ratio))
         IN  <<_adjust_fractal_target(current_difficulty, adjustment_factor),
               _adjust_header_bits(current_header_bits, adjustment_factor)>>

(* ------------------------------ staking ------------------------------- *)
(* Amounts are tenths of a coin, rates are percent, and rewards_earned is  *)
(* counted in 1/(100 * blocks_per_year) of a tenth, so that amount *       *)
(* annual_return_rate * blocks_elapsed / blocks_per_year stays a whole     *)
(* number.  The amounts of the f-string messages are left out.             *)

StakePosition(address, amount, start_time, lock_period, unlock_block) ==
    [address |-> address, amount |-> amount, start_time |-> start_time,
     lock_period |-> lock_period, unlock_block |-> unlock_block,
     rewards_earned |-> 0, status |-> "active"]

StakingSystem == [stakes |-> stakes, total_staked |-> total_staked, slash_history |-> slash_history]

min(a, b) == IF a < b THEN a ELSE b

(* list[stake_index] of Python as a 1-based position; 0 stands for IndexError *)
py_index(length, stake_index) ==
    IF stake_index >= 0 THEN stake_index + 1
    ELSE IF length + stake_index >= 0 THEN length + stake_index + 1 ELSE 0

create_stake_from_zero(st, address, amount, lock_period, current_block, now) ==
    IF amount < min_stake_amount
    THEN [st |-> st, result |-> <<FALSE, "Minimum stake is " \o ToString(min_stake_amount)>>]
    ELSE IF lock_period < min_lock_period
    THEN [st |-> st,
          result |-> <<FALSE, "Minimum lock period is " \o ToString(min_lock_period) \o " blocks">>]
    ELSE LET stake == StakePosition(address, amount, now, lock_period, lock_period)
             positions == IF address \in DOMAIN st.stakes THEN st.stakes[address] ELSE <<>>
         IN  [st |-> [st EXCEPT !.stakes = [a \in DOMAIN st.stakes \cup {address} |->
                                               IF a = address THEN Append(positions, stake)
                                               ELSE st.stakes[a]],
                                !.total_staked = @ + amount],
              result |-> <<TRUE, "Staked">>]

create_stake(st, address, amount, lock_period, current_block, now) ==
    IF amount < min_stake_amount
    THEN [st |-> st, result |-> <<FALSE, "Minimum stake is " \o ToString(min_stake_amount)>>]
    ELSE IF lock_period < min_lock_period
    THEN [st |-> st,
          result |-> <<FALSE, "Minimum lock period is " \o ToString(min_lock_period) \o " blocks">>]
    ELSE LET stake == StakePosition(address, amount, now, lock_period, current_block + lock_period)
             positions == IF address \in DOMAIN st.stakes THEN st.stakes[address] ELSE <<>>
         IN  [st |-> [st EXCEPT !.stakes = [a \in DOMAIN st.stakes \cup {address} |->
                                               IF a = address THEN Append(positions, stake)
                                               ELSE st.stakes[a]],
                                !.total_staked = @ + amount],
              result |-> <<TRUE, "Staked">>]

calculate_rewards(stake, current_block) ==
    IF stake.status # "active" THEN 0
    ELSE LET blocks_elapsed == min(current_block - (stake.unlock_block - stake.lock_period),
                                   stake.lock_period)
         IN  IF blocks_elapsed <= 0 THEN 0
             ELSE stake.amount * annual_return_rate * blocks_elapsed

update_rewards(st, current_block) ==
    [st EXCEPT !.stakes = [a \in DOMAIN st.stakes |->
        [k \in 1..Len(st.stakes[a]) |->
            IF st.stakes[a][k].status = "active"
            THEN [st.stakes[a][k] EXCEPT
                     !.rewards_earned = calculate_rewards(st.stakes[a][k], current_block)]
            ELSE st.stakes[a][k]]]]

initiate_withdrawal_early(st, address, stake_index, current_block) ==
    IF address \notin DOMAIN st.stakes THEN [st |-> st, result |-> <<FALSE, "No stakes found">>]
    ELSE IF stake_index >= Len(st.stakes[address])
    THEN [st |-> st, result |-> <<FALSE, "Invalid stake index">>]
    ELSE LET k == py_index(Len(st.stakes[address]), stake_index)
         IN  IF k = 0 THEN [st |-> st, result |-> <<FALSE, "raise IndexError">>]
             ELSE IF st.stakes[address][k].status # "active"
             THEN [st |-> st, result |-> <<FALSE, "Stake not active">>]
             ELSE [st |-> [st EXCEPT !.stakes[address][k] =
                              [@ EXCEPT !.rewards_earned =
                                            calculate_rewards(st.stakes[address][k], current_block),
                                        !.status = "unlocking"]],
                   result |-> <<TRUE, "Initiated withdrawal">>]

initiate_withdrawal(st, address, stake_index, current_block) ==
    IF address \notin DOMAIN st.stakes THEN [st |-> st, result |-> <<FALSE, "No stakes found">>]
    ELSE IF stake_index >= Len(st.stakes[address])
    THEN [st |-> st, result |-> <<FALSE, "Invalid stake index">>]
    ELSE LET k == py_index(Len(st.stakes[address]), stake_index)
         IN  IF k = 0 THEN [st |-> st, result |-> <<FALSE, "raise IndexError">>]
             ELSE IF st.stakes[address][k].status # "active"
             THEN [st |-> st, result |-> <<FALSE, "Stake not active">>]
             ELSE IF current_block < st.stakes[address][k].unlock_block
             THEN [st |-> st,
                   result |-> <<FALSE, "Stake locked until block "
                                       \o ToString(st.stakes[address][k].unlock_block)>>]
             ELSE [st |-> [st EXCEPT !.stakes[address][k] =
                              [@ EXCEPT !.rewards_earned =
                                            calculate_rewards(st.stakes[address][k], current_block),
                                        !.status = "unlocking"]],
                   result |-> <<TRUE, "Initiated withdrawal">>]

(* the returned total is the pair of amount and rewards_earned, which are  *)
(* counted in different units                                              *)
complete_withdrawal(st, address, stake_index) ==
    IF address \notin DOMAIN st.stakes
    THEN [st |-> st, result |-> <<FALSE, <<0, 0>>, "No stakes found">>]
    ELSE IF stake_index >= Len(st.stakes[address])
    THEN [st |-> st, result |-> <<FALSE, <<0, 0>>, "Invalid stake index">>]
    ELSE LET k == py_index(Len(st.stakes[address]), stake_index)
         IN  IF k = 0 THEN [st |-> st, result |-> <<FALSE, <<0, 0>>, "raise IndexError">>]
             ELSE IF st.stakes[address][k].status # "unlocking"
             THEN [st |-> st, result |-> <<FALSE, <<0, 0>>, "Stake not in unlocking state">>]
             ELSE [st |-> [st EXCEPT !.stakes[address][k].status = "withdrawn",
                                     !.total_staked = @ - st.stakes[address][k].amount],
                   result |-> <<TRUE, <<st.stakes[address][k].amount,
                                        st.stakes[address][k].rewards_earned>>, "Withdrew">>]

slash_stake_any_status(stake) ==
    LET slash_amount == (stake.amount * slash_percentage) \div 100
        amount == stake.amount - slash_amount
    IN  [stake EXCEPT !.amount = amount,
                      !.status = IF amount < min_stake_amount THEN "slashed" ELSE @]

(* one round of the loop of slash_validator over a position *)
slash_stake(stake) ==
    IF stake.status # "active" THEN stake
    ELSE LET slash_amount == (stake.amount * slash_percentage) \div 100
             amount == stake.amount - slash_amount
         IN  [stake EXCEPT !.amount = amount,
                           !.status = IF amount < min_stake_amount THEN "slashed" ELSE @]

RECURSIVE slashed_sum(_, _)
slashed_sum(positions, k) ==
    IF k > Len(positions) THEN 0
    ELSE (IF positions[k].status = "active"
          THEN (positions[k].amount * slash_percentage) \div 100 ELSE 0)
         + slashed_sum(positions, k + 1)

(* what the loop takes off total_staked: the reduced amount of every       *)
(* position that it deactivates                                            *)
RECURSIVE deactivated_sum(_, _)
deactivated_sum(positions, k) ==
    IF k > Len(positions) THEN 0
    ELSE (IF positions[k].status = "active" /\ slash_stake(positions[k]).status = "slashed"
          THEN slash_stake(positions[k]).amount ELSE 0)
         + deactivated_sum(positions, k + 1)

slash_validator(st, address, block_index, reason, now) ==
    IF address \notin DOMAIN st.stakes
    THEN [st |-> st, result |-> <<FALSE, 0, "No stakes found for validator">>]
    ELSE LET positions == st.stakes[address]
             total_slashed == slashed_sum(positions, 1)
             slash_record == [address |-> address, block_index |-> block_index,
                              slash_amount |-> total_slashed, reason |-> reason,
                              timestamp |-> now]
         IN  [st |-> [st EXCEPT !.stakes[address] =
                                    [k \in 1..Len(positions) |-> slash_stake(positions[k])],
                                !.total_staked = @ - deactivated_sum(positions, 1),
                                !.slash_history = Append(@, slash_record)],
              result |-> <<TRUE, total_slashed, "Slashed">>]

(* ------------------------------ AI audit ------------------------------ *)
(* What DeepSeekVerifier.verify_with_api returns: <<>> for None (no key,   *)
(* rate limit, HTTP error, any exception), else <<v>> with v the value of  *)
(* json.loads(content): [kind |-> "dict", ...] with one entry per key the  *)
(* audit reads, or a JSON value that is no object.  An entry is            *)
(* [kind |-> "absent"], [kind |-> "null"], [kind |-> "bool", v |-> ...] or *)
(* [kind |-> "num", v |-> tenths].                                         *)

Absent == [kind |-> "absent"]
Null == [kind |-> "null"]
Num(v) == [kind |-> "num", v |-> v]
Bool(v) == [kind |-> "bool", v |-> v]

(* dict.get(key, default) *)
dict_get(entry, default) == IF entry.kind = "absent" THEN default ELSE entry

(* bool(ai_result) of the `if ai_result:` test *)
truthy(value) ==
    IF value.kind = "dict"
    THEN value.fraud_score # Absent \/ value.overall_valid # Absent \/ value.confidence # Absent
    ELSE TRUE

(* DeepSeekVerifier.analyze_fraud_score: [raised, is_suspicious, fraud_score] *)
analyze_fraud_score(verification_result) ==
    IF verification_result.kind # "dict"
    THEN [raised |-> TRUE, is_suspicious |-> FALSE, fraud_score |-> 0]
    ELSE LET fraud_score == dict_get(verification_result.fraud_score, Num(0))
             overall_valid == dict_get(verification_result.overall_valid, Bool(TRUE))
             confidence == dict_get(verification_result.confidence, Num(0))
             not_valid == IF overall_valid.kind = "null" THEN TRUE ELSE ~overall_valid.v
         IN  IF fraud_score.kind # "num"
             THEN [raised |-> TRUE, is_suspicious |-> FALSE, fraud_score |-> 0]
             ELSE IF fraud_score.v > 5 \/ not_valid
             THEN [raised |-> FALSE, is_suspicious |-> TRUE, fraud_score |-> fraud_score.v]
             ELSE IF confidence.kind # "num"
             THEN [raised |-> TRUE, is_suspicious |-> FALSE, fraud_score |-> 0]
             ELSE [raised |-> FALSE, is_suspicious |-> confidence.v < 7,
                   fraud_score |-> fraud_score.v]

(* HybridVerifier.verify_block: [raised, is_valid, message]; api_result is *)
(* what verify_with_api returns when it is called                          *)
HybridVerifier_verify_block(block, previous_block, use_ai_audit, enabled, api_result) ==
    LET primary == verify_block(block, previous_block)
    IN  IF ~primary[1] THEN [raised |-> FALSE, is_valid |-> FALSE, message |-> primary[2]]
        ELSE IF use_ai_audit /\ enabled /\ api_result # <<>> /\ truthy(api_result[1])
        THEN LET audit == analyze_fraud_score(api_result[1])
             IN  IF audit.raised
                 THEN [raised |-> TRUE, is_valid |-> FALSE, message |-> "exception"]
                 ELSE [raised |-> FALSE, is_valid |-> primary[1],
                       message |-> IF audit.is_suspicious
                                   THEN primary[2] \o " | AI flagged as suspicious (fraud: "
                                        \o ToString(audit.fraud_score) \o ")"
                                   ELSE primary[2]]
        ELSE [raised |-> FALSE, is_valid |-> primary[1], message |-> primary[2]]

(* ------------------------- blocks from peers -------------------------- *)

proof_from_dict(data) ==
    [nonce |-> data.nonce, fractal_seed |-> data.fractal_seed,
     solution_point_real |-> data.solution_point_real,
     solution_point_imag |-> data.solution_point_imag,
     fractal_dimension |-> data.fractal_dimension,
     fractal_data_hash |-> data.fractal_data_hash, timestamp |-> data.timestamp]

block_from_dict(data) ==
    Block(data.index, data.timestamp,
          [k \in 1..Len(data.transactions) |-> tx_from_dict(data.transactions[k])],
          data.previous_hash, data.miner_address,
          IF data.fractal_proof # <<>> THEN <<proof_from_dict(data.fractal_proof[1])>>
          ELSE NoProof,
          data.merkle_root, data.block_hash,
          data.difficulty_target, data.header_difficulty_bits)

(* <<block>> of the first block of the chain with that hash, <<>> for None *)
get_block_by_hash(c, block_hash) ==
    IF \E i \in 1..Len(c) : c[i].block_hash = block_hash
    THEN <<c[CHOOSE i \in 1..Len(c) :
                /\ c[i].block_hash = block_hash
                /\ \A j \in 1..(i - 1) : c[j].block_hash # block_hash]>>
    ELSE <<>>

(* the dictionary a peer sends for a block on top of the block prev: the   *)
(* peer chooses the difficulty fields and the proof                        *)
peer_block_dict(prev, target, bits, nonce, point_real, seed_ok, with_proof) ==
    LET now == genesis_timestamp + 600
        coinbase == create_coinbase("a1", initial_reward, prev.index + 1, now)
        proof == [nonce |-> nonce,
                  fractal_seed |-> IF seed_ok
                                   THEN generate_fractal_seed(prev.block_hash, "a1", nonce)
                                   ELSE "forged",
                  solution_point_real |-> point_real, solution_point_imag |-> 0,
                  fractal_dimension |-> point_real, fractal_data_hash |-> "bitmap",
                  timestamp |-> now]
        b == Block(prev.index + 1, now, <<coinbase>>, prev.block_hash, "a1",
                   IF with_proof THEN <<proof>> ELSE NoProof, "", "", target, bits)
    IN  [b EXCEPT !.block_hash = calculate_hash(b)]

(* <<difficulty_target, header_difficulty_bits, nonce, solution point>> *)
PeerProofs ==
    {<<1500, 16, 4, 1500>>, <<1500, 0, 1, 1500>>, <<900, 16, 4, 900>>,
     <<1500, 36, HexLen, 1500>>, <<1500, 16, 3, 1500>>, <<1500, 16, 4, 1400>>}

PeerBlockDicts(prev) ==
    {peer_block_dict(prev, q[1], q[2], q[3], q[4], TRUE, TRUE) : q \in PeerProofs}
    \cup {peer_block_dict(prev, 1500, 16, 4, 1500, FALSE, TRUE),
          peer_block_dict(prev, 1500, 16, 4, 1500, TRUE, FALSE)}

(* BLOCKS payloads: one block on the tip, two blocks in a row, or a block  *)
(* with a bad proof followed by a good block on the tip                    *)
PeerBlockLists(c) ==
    LET tip == c[Len(c)]
        first == PeerBlockDicts(tip)
        honest == peer_block_dict(tip, 1500, 16, 4, 1500, TRUE, TRUE)
    IN  {<<d>> : d \in first}
        \cup {<<honest, peer_block_dict(block_from_dict(honest), q[1], q[2], q[3], q[4],
                                        TRUE, TRUE)>> :
                  q \in {<<1500, 16, 4, 1500>>, <<1500, 0, 1, 1500>>}}
        \cup {<<peer_block_dict(tip, 1500, 16, 4, 1500, FALSE, TRUE), honest>>,
              <<peer_block_dict(tip, 1500, 16, 4, 1400, TRUE, TRUE), honest>>}

(* Blockchain.add_block as a function of the chain state *)
add_block_to(st, block) ==
    IF ~add_block_accepts(st.chain, block) THEN [st EXCEPT !.ok = FALSE]
    ELSE [chain |-> Append(st.chain, block),
          balances |-> _update_balances(st.balances, block),
          pending |-> remove_included(st.pending, tx_hashes_of(block)),
          ok |-> TRUE]

(* HybridVerifier.verify_block as the handlers call it: use_ai_audit is    *)
(* left at False                                                           *)
hybrid_verify_block(block, previous_block) ==
    LET r == HybridVerifier_verify_block(block, previous_block, FALSE, FALSE, <<>>)
    IN  <<r.is_valid, r.message>>

(* P2PNode._handle_new_block *)
HandleNewBlock ==
    /\ Len(chain) < MaxChain
    /\ \E data \in PeerBlockDicts(chain[Len(chain)]) :
          LET block == block_from_dict(data)
              previous_block == get_block_by_hash(chain, block.previous_hash)
          IN  IF ~quick_verify(block)
              THEN /\ ret' = [op |-> "new_block", ok |-> FALSE, why |-> "quick_verify"]
                   /\ UNCHANGED <<chain, balances, pending_transactions>>
              ELSE IF ~hybrid_verify_block(block, previous_block)[1]
              THEN /\ ret' = [op |-> "new_block", ok |-> FALSE,
                              why |-> hybrid_verify_block(block, previous_block)[2]]
                   /\ UNCHANGED <<chain, balances, pending_transactions>>
              ELSE add_block(block)
    /\ UNCHANGED <<thread_vars, aux_vars>>

RECURSIVE sync_blocks(_, _, _)
sync_blocks(st, blocks_data, k) ==
    IF k > Len(blocks_data) THEN st
    ELSE LET block == block_from_dict(blocks_data[k])
             previous_block == get_block_by_hash(st.chain, block.previous_hash)
         IN  sync_blocks(IF hybrid_verify_block(block, previous_block)[1]
                         THEN add_block_to(st, block) ELSE [st EXCEPT !.ok = FALSE],
                         blocks_data, k + 1)

(* P2PNode._handle_blocks *)
HandleBlocks ==
    \E blocks_data \in PeerBlockLists(chain) :
        /\ Len(chain) + Len(blocks_data) <= MaxChain
        /\ LET st == sync_blocks([chain |-> chain, balances |-> balances,
                                  pending |-> pending_transactions, ok |-> TRUE],
                                 blocks_data, 1)
           IN  /\ chain' = st.chain
               /\ balances' = st.balances
               /\ pending_transactions' = st.pending
               /\ ret' = [op |-> "blocks", ok |-> st.ok, why |-> "synced"]
        /\ call' = [op |-> "_handle_blocks", args |-> <<blocks_data>>, result |-> <<>>]
        /\ UNCHANGED <<thread_vars, staking_vars, net_vars>>

NextPeers == HandleNewBlock \/ HandleBlocks \/ MineBlock \/ HandleNewTransaction

SpecPeers == Init /\ [][NextPeers]_vars

(* ------------------------------ p2p node ------------------------------ *)
(* A node is its P2PNode with the Blockchain it holds.  A connection (the  *)
(* StreamWriter of it) is named by the process at its other end.  A        *)
(* message is a NetworkMessage with length, the len(message_json) of the   *)
(* text that carried it.  Times are in milliseconds.  payload.get(key) of  *)
(* a missing key is <<>>.  A protocol version string is the sequence of    *)
(* its dotted parts.  The stats counters, host and port are left out.      *)

MessageTypes ==
    {"hello", "get_peers", "peers", "get_blocks", "blocks", "get_block_headers",
     "block_headers", "new_block", "block_announcement", "new_transaction", "get_mempool",
     "mempool", "get_chain_info", "chain_info", "ping", "pong", "error"}

(* the types that _register_message_handlers gives a handler *)
HandlerTypes ==
    {"hello", "get_peers", "peers", "new_block", "block_announcement", "new_transaction",
     "get_chain_info", "chain_info", "get_blocks", "blocks", "ping", "pong"}

MAX_MESSAGE_SIZE == 10485760
max_messages_per_second == 10
max_bytes_per_second == 1048576
rate_window == 1000
stale_after == 300000
maintenance_sleep == 30000
cleanup_sleep == 300000
MAJOR == 1

(* len(message.to_json()) of a message this program builds *)
json_length(msg_type) == IF msg_type \in {"new_block", "blocks"} THEN 2000 ELSE 200

(* str(uuid.uuid4()): a name no other draw gives.  uuid_drawn counts the   *)
(* draws of a node by the use of the value: a message for one connection   *)
(* or, under "*", a message for all                                        *)
uuid4(node_id, uuid_drawn, use) ==
    node_id \o ">" \o use \o "#"
        \o ToString((IF use \in DOMAIN uuid_drawn THEN uuid_drawn[use] ELSE 0) + 1)

drawn(uuid_drawn, use) ==
    [u \in DOMAIN uuid_drawn \cup {use} |->
        IF u = use THEN (IF use \in DOMAIN uuid_drawn THEN uuid_drawn[use] ELSE 0) + 1
        ELSE uuid_drawn[u]]

(* NetworkMessage.create *)
NetworkMessage_create(msg_type, payload, sender_id, msg_id, current_time) ==
    [msg_type |-> msg_type, payload |-> payload, msg_id |-> msg_id,
     timestamp |-> current_time, sender_id |-> sender_id, length |-> json_length(msg_type)]

(* NetworkMessage.from_json and MessageValidator.validate_message *)
validate_message(message) ==
    /\ message.msg_type \in MessageTypes
    /\ message.length <= MAX_MESSAGE_SIZE

EmptyDict == [k \in {} |-> <<>>]

RateLimiter == [message_counts |-> EmptyDict, byte_counts |-> EmptyDict]

RECURSIVE sum_sizes(_, _)
sum_sizes(entries, k) == IF k > Len(entries) THEN 0 ELSE entries[k][2] + sum_sizes(entries, k + 1)

(* dict[key] = value *)
dict_set(d, key, value) == [k \in DOMAIN d \cup {key} |-> IF k = key THEN value ELSE d[k]]

(* the lists of peer_id after the stale entries are dropped *)
recent_messages(rl, peer_id, current_time) ==
    SelectSeq(IF peer_id \in DOMAIN rl.message_counts THEN rl.message_counts[peer_id] ELSE <<>>,
              LAMBDA t : current_time - t < rate_window)

recent_bytes(rl, peer_id, current_time) ==
    SelectSeq(IF peer_id \in DOMAIN rl.byte_counts THEN rl.byte_counts[peer_id] ELSE <<>>,
              LAMBDA e : current_time - e[1] < rate_window)

within_limits_bytes_only(rl, peer_id, message_size, current_time) ==
    ~(sum_sizes(recent_bytes(rl, peer_id, current_time), 1) + message_size
          > max_bytes_per_second)

within_limits(rl, peer_id, message_size, current_time) ==
    /\ ~(Len(recent_messages(rl, peer_id, current_time)) >= max_messages_per_second)
    /\ ~(sum_sizes(recent_bytes(rl, peer_id, current_time), 1) + message_size
             > max_bytes_per_second)

(* RateLimiter.check_rate_limit: the limiter after the call and what it returned *)
check_rate_limit(rl, peer_id, message_size, current_time) ==
    LET times == recent_messages(rl, peer_id, current_time)
        sizes == recent_bytes(rl, peer_id, current_time)
        ok == within_limits(rl, peer_id, message_size, current_time)
    IN  [rl |-> [message_counts |->
                     dict_set(rl.message_counts, peer_id,
                              IF ok THEN Append(times, current_time) ELSE times),
                 byte_counts |->
                     dict_set(rl.byte_counts, peer_id,
                              IF ok THEN Append(sizes, <<current_time, message_size>>)
                              ELSE sizes)],
         ok |-> ok]

(* P2PNode.__init__ around a Blockchain that holds the genesis block, and  *)
(* start(): maintenance_at and cleanup_at are the times at which the       *)
(* sleeps of the two loops end                                             *)
P2PNode(node_id, current_time) ==
    [node_id |-> node_id,
     chain |-> <<create_genesis_block>>,
     balances |-> _update_balances(<<>>, create_genesis_block),
     pending |-> <<>>,
     peers |-> EmptyDict,
     peer_connections |-> EmptyDict,
     rate_limiter |-> RateLimiter,
     seen_messages |-> {},
     maintenance_at |-> current_time + maintenance_sleep,
     cleanup_at |-> current_time + cleanup_sleep]

(* what a handler leaves: the node, the messages written, the uuid count *)
Handled(node, sent, uuid_drawn) == [node |-> node, sent |-> sent, uuid |-> uuid_drawn]

(* ProtocolVersion.is_compatible *)
is_compatible(other_version) == Len(other_version) > 0 /\ other_version[1] = MAJOR

(* the node ids a peer may register under, in a fixed order that stands    *)
(* for the insertion order of the dictionaries                             *)
PeerOrder == <<"A", "B", "C", "X", "Y">>

(* for node_id, writer in peer_connections.items(): if node_id not in exclude *)
writers_to(peer_connections, exclude) ==
    LET ids == SelectSeq(PeerOrder,
                         LAMBDA p : p \in DOMAIN peer_connections /\ p \notin exclude)
    IN  [k \in 1..Len(ids) |-> peer_connections[ids[k]]]

(* one message written to each of the writers *)
send_each(writers, message) ==
    [k \in 1..Len(writers) |-> [writer |-> writers[k], message |-> message]]

(* P2PNode.broadcast_block *)
broadcast_block(node, block, exclude, uuid_drawn, current_time) ==
    Handled(node,
            send_each(writers_to(node.peer_connections, exclude),
                      NetworkMessage_create("new_block", [block_data |-> <<block>>],
                                            node.node_id,
                                            uuid4(node.node_id, uuid_drawn, "*"),
                                            current_time)),
            drawn(uuid_drawn, "*"))

(* P2PNode.broadcast_transaction *)
broadcast_transaction(node, transaction, exclude, uuid_drawn, current_time) ==
    Handled(node,
            send_each(writers_to(node.peer_connections, exclude),
                      NetworkMessage_create("new_transaction",
                                            [transaction_data |-> <<transaction>>],
                                            node.node_id,
                                            uuid4(node.node_id, uuid_drawn, "*"),
                                            current_time)),
            drawn(uuid_drawn, "*"))

chain_state(node) ==
    [chain |-> node.chain, balances |-> node.balances, pending |-> node.pending, ok |-> TRUE]

with_chain_state(node, st) ==
    [node EXCEPT !.chain = st.chain, !.balances = st.balances, !.pending = st.pending]

hello_payload(node) ==
    [node_id |-> node.node_id, protocol_version |-> <<MAJOR, 0, 0>>,
     chain_height |-> get_chain_length(node.chain)]

_handle_hello(node, message, writer, uuid_drawn, current_time) ==
    LET payload == message.payload
        peer_info == [node_id |-> payload.node_id,
                      protocol_version |-> payload.protocol_version,
                      chain_height |-> payload.chain_height, last_seen |-> current_time]
        response == NetworkMessage_create("hello", hello_payload(node), node.node_id,
                                          uuid4(node.node_id, uuid_drawn, writer),
                                          current_time)
    IN  IF ~is_compatible(peer_info.protocol_version) THEN Handled(node, <<>>, uuid_drawn)
        ELSE Handled([node EXCEPT
                         !.peers = dict_set(@, peer_info.node_id, peer_info),
                         !.peer_connections = dict_set(@, peer_info.node_id, writer)],
                     <<[writer |-> writer, message |-> response]>>,
                     drawn(uuid_drawn, writer))

(* the handler without the test of what add_block returned *)
_handle_new_block_unchecked_add(node, message, writer, uuid_drawn, current_time) ==
    IF message.payload.block_data = <<>> THEN Handled(node, <<>>, uuid_drawn)
    ELSE LET block == block_from_dict(message.payload.block_data[1])
             previous_block == get_block_by_hash(node.chain, block.previous_hash)
             st == add_block_to(chain_state(node), block)
         IN  IF ~quick_verify(block) THEN Handled(node, <<>>, uuid_drawn)
             ELSE IF ~hybrid_verify_block(block, previous_block)[1]
             THEN Handled(node, <<>>, uuid_drawn)
             ELSE broadcast_block(with_chain_state(node, st), block, {message.sender_id},
                                  uuid_drawn, current_time)

_handle_new_block(node, message, writer, uuid_drawn, current_time) ==
    IF message.payload.block_data = <<>> THEN Handled(node, <<>>, uuid_drawn)
    ELSE LET block == block_from_dict(message.payload.block_data[1])
             previous_block == get_block_by_hash(node.chain, block.previous_hash)
             st == add_block_to(chain_state(node), block)
         IN  IF ~quick_verify(block) THEN Handled(node, <<>>, uuid_drawn)
             ELSE IF ~hybrid_verify_block(block, previous_block)[1]
             THEN Handled(node, <<>>, uuid_drawn)
             ELSE IF ~st.ok THEN Handled(node, <<>>, uuid_drawn)
             ELSE broadcast_block(with_chain_state(node, st), block, {message.sender_id},
                                  uuid_drawn, current_time)

_handle_new_transaction(node, message, writer, uuid_drawn, current_time) ==
    IF message.payload.transaction_data = <<>> THEN Handled(node, <<>>, uuid_drawn)
    ELSE LET transaction == tx_from_dict(message.payload.transaction_data[1])
         IN  IF add_transaction_result(node.balances, node.pending, transaction) # "added"
             THEN Handled(node, <<>>, uuid_drawn)
             ELSE broadcast_transaction([node EXCEPT !.pending = Append(@, transaction)],
                                        transaction, {message.sender_id}, uuid_drawn,
                                        current_time)

_handle_blocks(node, message, writer, uuid_drawn, current_time) ==
    Handled(with_chain_state(node, sync_blocks(chain_state(node), message.payload.blocks, 1)),
            <<>>, uuid_drawn)

_handle_ping(node, message, writer, uuid_drawn, current_time) ==
    Handled(node,
            <<[writer |-> writer,
               message |-> NetworkMessage_create("pong", [timestamp |-> current_time],
                                                 node.node_id,
                                                 uuid4(node.node_id, uuid_drawn, writer),
                                                 current_time)]>>,
            drawn(uuid_drawn, writer))

_handle_pong(node, message, writer, uuid_drawn, current_time) ==
    Handled(IF message.sender_id \in DOMAIN node.peers
            THEN [node EXCEPT !.peers[message.sender_id].last_seen = current_time]
            ELSE node,
            <<>>, uuid_drawn)

(* handler = self.message_handlers.get(message.msg_type), then the call of *)
(* it; the messages drawn are of the types listed here or have no handler  *)
dispatch(node, message, writer, uuid_drawn, current_time) ==
    IF message.msg_type = "hello"
    THEN _handle_hello(node, message, writer, uuid_drawn, current_time)
    ELSE IF message.msg_type = "new_block"
    THEN _handle_new_block(node, message, writer, uuid_drawn, current_time)
    ELSE IF message.msg_type = "new_transaction"
    THEN _handle_new_transaction(node, message, writer, uuid_drawn, current_time)
    ELSE IF message.msg_type = "blocks"
    THEN _handle_blocks(node, message, writer, uuid_drawn, current_time)
    ELSE IF message.msg_type = "ping"
    THEN _handle_ping(node, message, writer, uuid_drawn, current_time)
    ELSE IF message.msg_type = "pong"
    THEN _handle_pong(node, message, writer, uuid_drawn, current_time)
    ELSE Handled(node, <<>>, uuid_drawn)

never_seen(node, message) == FALSE

(* message.msg_id in self.seen_messages *)
already_seen(node, message) == message.msg_id \in node.seen_messages

(* P2PNode._process_message: outcome says where the message ended *)
_process_message(node, message, writer, uuid_drawn, current_time) ==
    LET limited == check_rate_limit(node.rate_limiter, message.sender_id, message.length,
                                    current_time)
        counted == [node EXCEPT !.rate_limiter = limited.rl]
        marked == [counted EXCEPT !.seen_messages = @ \cup {message.msg_id}]
    IN  IF ~validate_message(message)
        THEN [outcome |-> "invalid"] @@ Handled(node, <<>>, uuid_drawn)
        ELSE IF ~limited.ok
        THEN [outcome |-> "rate_limited"] @@ Handled(counted, <<>>, uuid_drawn)
        ELSE IF already_seen(counted, message)
        THEN [outcome |-> "duplicate"] @@ Handled(counted, <<>>, uuid_drawn)
        ELSE IF message.msg_type \notin HandlerTypes
        THEN [outcome |-> "no_handler"] @@ Handled(marked, <<>>, uuid_drawn)
        ELSE [outcome |-> "dispatched"]
             @@ dispatch(marked, message, writer, uuid_drawn, current_time)

(* the uuid counts after one draw for each of the writers *)
RECURSIVE drawn_each(_, _, _)
drawn_each(uuid_drawn, writers, k) ==
    IF k > Len(writers) THEN uuid_drawn
    ELSE drawn_each(drawn(uuid_drawn, writers[k]), writers, k + 1)

(* one round of _peer_maintenance_loop after its sleep: drop the stale     *)
(* peers, ping the others, sleep again                                     *)
peer_maintenance(node, uuid_drawn, current_time) ==
    LET stale_peers == {node_id \in DOMAIN node.peers :
                            current_time - node.peers[node_id].last_seen > stale_after}
        peers == [p \in DOMAIN node.peers \ stale_peers |-> node.peers[p]]
        peer_connections == [p \in DOMAIN node.peer_connections \ stale_peers |->
                                 node.peer_connections[p]]
        writers == writers_to(peer_connections, {})
    IN  Handled([node EXCEPT !.peers = peers, !.peer_connections = peer_connections,
                             !.maintenance_at = current_time + maintenance_sleep],
                [k \in 1..Len(writers) |->
                    [writer |-> writers[k],
                     message |-> NetworkMessage_create(
                                     "ping", EmptyDict, node.node_id,
                                     uuid4(node.node_id,
                                           drawn_each(uuid_drawn, SubSeq(writers, 1, k - 1), 1),
                                           writers[k]),
                                     current_time)]],
                drawn_each(uuid_drawn, writers, 1))

(* one round of _cleanup_loop after its sleep *)
cleanup(node, current_time) ==
    [node EXCEPT !.seen_messages = {}, !.cleanup_at = current_time + cleanup_sleep]

(* _connect_to_peer: the HELLO written on the new connection *)
connect_to_peer(node, peer, uuid_drawn, current_time) ==
    Handled(node,
            <<[writer |-> peer,
               message |-> NetworkMessage_create("hello", hello_payload(node), node.node_id,
                                                 uuid4(node.node_id, uuid_drawn, peer),
                                                 current_time)]>>,
            drawn(uuid_drawn, peer))

(* main.py 230-246: the block mine_block returned is verified against the  *)
(* tip, appended and broadcast                                             *)
mined_block(node, block, uuid_drawn, current_time) ==
    LET st == add_block_to(chain_state(node), block)
    IN  IF ~hybrid_verify_block(block, get_latest_block(node.chain))[1]
        THEN Handled(node, <<>>, uuid_drawn)
        ELSE IF ~st.ok THEN Handled(node, <<>>, uuid_drawn)
        ELSE broadcast_block(with_chain_state(node, st), block, {}, uuid_drawn, current_time)

(* one round of _mining_loop on a node with a P2PNode, mine_block taken as *)
(* one step                                                                *)
mining_round(node, miner_address, uuid_drawn, current_time) ==
    LET block == mine_block(node.chain, node.pending, miner_address,
                            genesis_timestamp + target_block_time + current_time \div 1000)
    IN  IF block = <<>> THEN Handled(node, <<>>, uuid_drawn)
        ELSE mined_block(node, block[1], uuid_drawn, current_time)

(* ---------------------------- p2p operations -------------------------- *)
(* The processes: the nodes of net run this program, the others are peers  *)
(* that may send anything.  What a node writes to a process outside net is *)
(* kept in call only.                                                      *)

MaxReceived == 2
MaxTicks == 1

RECURSIVE post(_, _, _, _)
post(w, from, sent, k) ==
    IF k > Len(sent) THEN w
    ELSE post(IF <<from, sent[k].writer>> \in DOMAIN w
              THEN [w EXCEPT ![<<from, sent[k].writer>>] = Append(@, sent[k].message)]
              ELSE w,
              from, sent, k + 1)

InitNodes(nodes) ==
    /\ net = [n \in nodes |-> P2PNode(n, 0)]
    /\ wire = [c \in {c \in nodes \X nodes : c[1] # c[2]} |-> <<>>]
    /\ clock = 0
    /\ uuid = [n \in nodes |-> EmptyDict]
    /\ handled = [n \in nodes |-> EmptyDict]
    /\ last_traffic = [n \in nodes |-> EmptyDict]
    /\ received = 0
    /\ passed = [n \in nodes |-> EmptyDict]

passed_of(n, peer_id) == IF peer_id \in DOMAIN passed[n] THEN passed[n][peer_id] ELSE <<>>

times_handled(n, msg_id) == IF msg_id \in DOMAIN handled[n] THEN handled[n][msg_id] ELSE 0

(* _handle_client read message on connection writer and processes it; w is *)
(* the wire without the message                                            *)
Process(n, writer, message, w) ==
    LET r == _process_message(net[n], message, writer, uuid[n], clock)
    IN  /\ net' = [net EXCEPT ![n] = r.node]
        /\ wire' = post(w, n, r.sent, 1)
        /\ uuid' = [uuid EXCEPT ![n] = r.uuid]
        /\ handled' = IF r.outcome = "dispatched"
                      THEN [handled EXCEPT ![n] = dict_set(@, message.msg_id,
                                                           times_handled(n, message.msg_id) + 1)]
                      ELSE handled
        /\ last_traffic' = [last_traffic EXCEPT ![n] = dict_set(@, writer, clock)]
        /\ passed' = IF r.outcome \in {"invalid", "rate_limited"} THEN passed
                      ELSE [passed EXCEPT ![n] =
                               dict_set(@, message.sender_id,
                                        Append(passed_of(n, message.sender_id),
                                               [time |-> clock, size |-> message.length]))]
        /\ call' = [op |-> "_process_message", args |-> <<n, writer, message>>,
                    result |-> <<r.outcome, r.sent>>]
        /\ UNCHANGED <<chain_vars, thread_vars, staking_vars, clock>>

(* a message a process outside net sent arrives *)
Receive(n, writer, messages, budget) ==
    /\ received < budget
    /\ \E message \in messages : Process(n, writer, message, wire)
    /\ received' = received + 1

(* the next message of the connection from node writer arrives *)
Deliver(n, writer) ==
    /\ <<writer, n>> \in DOMAIN wire
    /\ wire[<<writer, n>>] # <<>>
    /\ Process(n, writer, Head(wire[<<writer, n>>]),
               [wire EXCEPT ![<<writer, n>>] = Tail(@)])
    /\ UNCHANGED received

(* what is left alone by the steps that are not the reading of a message *)
Wrote(n, r, op) ==
    /\ net' = [net EXCEPT ![n] = r.node]
    /\ wire' = post(wire, n, r.sent, 1)
    /\ uuid' = [uuid EXCEPT ![n] = r.uuid]
    /\ call' = [op |-> op, args |-> <<n>>, result |-> <<"done", r.sent>>]
    /\ UNCHANGED <<chain_vars, caller_vars, staking_vars, clock, handled, last_traffic,
                   received, passed, cache>>

Acted(n, r, op) == Wrote(n, r, op) /\ UNCHANGED mining

(* _connect_to_peer, once per pair of nodes *)
Connect(n, peer) ==
    /\ wire[<<n, peer>>] = <<>>
    /\ wire[<<peer, n>>] = <<>>
    /\ peer \notin DOMAIN net[n].peer_connections
    /\ n \notin DOMAIN net[peer].peer_connections
    /\ Acted(n, connect_to_peer(net[n], peer, uuid[n], clock), "_connect_to_peer")

(* _mining_loop of main.py on node n *)
Announce(n) ==
    /\ Acted(n, mining_round(net[n], "a1", uuid[n], clock), "_mining_loop")

(* asyncio.sleep returns at its time or later *)
PeerMaintenance(n) ==
    /\ clock >= net[n].maintenance_at
    /\ Acted(n, peer_maintenance(net[n], uuid[n], clock), "_peer_maintenance_loop")

Cleanup(n) ==
    /\ clock >= net[n].cleanup_at
    /\ net' = [net EXCEPT ![n] = cleanup(net[n], clock)]
    /\ handled' = [handled EXCEPT ![n] = EmptyDict]
    /\ call' = [op |-> "_cleanup_loop", args |-> <<n>>, result |-> <<>>]
    /\ UNCHANGED <<chain_vars, thread_vars, staking_vars, wire, clock, uuid, last_traffic,
                   received, passed>>

Tick(step, ticks) ==
    /\ clock < ticks * step
    /\ clock' = clock + step
    /\ UNCHANGED <<chain_vars, thread_vars, call, staking_vars, net, wire, uuid, handled,
                   last_traffic, received, passed>>

(* a message as a peer sends it *)
sized_message(msg_type, payload, msg_id, sender_id, length) ==
    [msg_type |-> msg_type, payload |-> payload, msg_id |-> msg_id, timestamp |-> 0,
     sender_id |-> sender_id, length |-> length]

peer_message(msg_type, payload, msg_id, sender_id) ==
    sized_message(msg_type, payload, msg_id, sender_id, json_length(msg_type))

(* the msg_id of the next message of a peer *)
fresh_id == "x" \o ToString(received + 1)

(* block dictionaries a peer puts into NEW_BLOCK: a good block on the tip, *)
(* one with a forged seed, a good block on the first block, and the first  *)
(* block of the chain itself                                               *)
GossipBlockDicts(c) ==
    {peer_block_dict(c[Len(c)], 1500, 16, 4, 1500, TRUE, TRUE),
     peer_block_dict(c[Len(c)], 1500, 16, 4, 1500, FALSE, TRUE),
     peer_block_dict(c[1], 1500, 16, 4, 1500, TRUE, TRUE),
     c[1]}

GossipTxDicts == {d \in PeerTxDicts : d.amount = 20 /\ d.tx_hash = ""}

(* what peer X sends to a node.  X says HELLO under the id X, with a       *)
(* compatible version or not; it sends blocks and transactions with X or   *)
(* another id in sender_id, under a fresh msg_id or under x1 again         *)
GossipMessages(node) ==
    {peer_message("hello", [node_id |-> "X", protocol_version |-> v, chain_height |-> 1],
                  fresh_id, "X") : v \in {<<1, 0, 0>>, <<2, 0, 0>>}}
    \cup {peer_message("new_block", [block_data |-> d], fresh_id, "X") :
              d \in {<<b>> : b \in GossipBlockDicts(node.chain)} \cup {<<>>}}
    \cup {peer_message("new_block",
                       [block_data |-> <<peer_block_dict(node.chain[Len(node.chain)],
                                                         1500, 16, 4, 1500, TRUE, TRUE)>>],
                       id, sender) :
              id \in {fresh_id, "x1"}, sender \in {"X", "Y"}}
    \cup {peer_message("new_transaction", [transaction_data |-> <<d>>], id, "X") :
              d \in GossipTxDicts, id \in {fresh_id, "x1"}}
    \cup {peer_message(t, EmptyDict, fresh_id, "X") : t \in {"ping", "error", "bogus"}}

(* the neighbour C of the node says HELLO *)
NeighbourMessages ==
    {peer_message("hello", [node_id |-> "C", protocol_version |-> <<1, 0, 0>>,
                            chain_height |-> 1], "c1", "C")}

GossipReceive == Receive("B", "X", GossipMessages(net["B"]), MaxReceived)

NeighbourHello == Receive("B", "C", NeighbourMessages, MaxReceived)

NextGossip ==
    \/ GossipReceive
    \/ NeighbourHello
    \/ (Len(net["B"].chain) < MaxChain /\ Announce("B"))
    \/ Cleanup("B")
    \/ Tick(cleanup_sleep, MaxTicks)

(* one node with nothing but the genesis block and no peer *)
InitNode == InitChain /\ InitNodes({"B"})

SpecGossip == InitNode /\ [][NextGossip]_vars

(* a burst of messages from a peer over two seconds: the first MaxVaried   *)
(* of them under two sender ids, as short messages or as messages of more  *)
(* than half of max_bytes_per_second, the others short ones under one id   *)
MaxBurst == 12
MaxVaried == 3
BurstSizes == {200, 600000}

BurstMessages ==
    {sized_message("pong", [timestamp |-> 0], fresh_id, sender, length) :
         sender \in IF received < MaxVaried THEN {"X", "Y"} ELSE {"X"},
         length \in IF received < MaxVaried THEN BurstSizes ELSE {200}}

BurstReceive == Receive("B", "X", BurstMessages, MaxBurst)

NextRate == BurstReceive \/ Tick(rate_window \div 2, MaxTicks + 1)

SpecRate == InitNode /\ [][NextRate]_vars

(* a peer that says HELLO and then sends pings, pongs and transactions,    *)
(* always under its own id, while the maintenance loop wakes on time every *)
(* 30 s for PruneTicks rounds                                              *)
PruneTicks == 11

PruneMessages ==
    {peer_message("hello", [node_id |-> "X", protocol_version |-> <<MAJOR, 0, 0>>,
                            chain_height |-> 1], fresh_id, "X")}
    \cup {peer_message("new_transaction", [transaction_data |-> <<d>>], fresh_id, "X") :
              d \in GossipTxDicts}
    \cup {peer_message(t, EmptyDict, fresh_id, "X") : t \in {"ping", "pong"}}

PruneReceive == Receive("B", "X", PruneMessages, MaxReceived)

(* time passes while no maintenance round is due *)
TickOnTime(step, ticks) ==
    /\ \A n \in DOMAIN net : clock < net[n].maintenance_at
    /\ Tick(step, ticks)

NextPrune == PruneReceive \/ PeerMaintenance("B") \/ TickOnTime(maintenance_sleep, PruneTicks)

SpecPrune == InitNode /\ [][NextPrune]_vars

(* three nodes in a line: A connects to B, B connects to C, the HELLOs go  *)
(* back and forth, and A mines and announces blocks once all three know    *)
(* their neighbours and hold the same chain                                *)
MaxAnnounced == 1
LineNodes == {"A", "B", "C"}

line_is_up ==
    /\ DOMAIN net["A"].peer_connections = {"B"}
    /\ DOMAIN net["B"].peer_connections = {"A", "C"}
    /\ DOMAIN net["C"].peer_connections = {"B"}

same_chain == net["A"].chain = net["B"].chain /\ net["B"].chain = net["C"].chain

AnnounceOnLine ==
    /\ line_is_up
    /\ same_chain
    /\ Len(net["A"].chain) <= MaxAnnounced
    /\ Announce("A")

ConnectLine == Connect("A", "B") \/ Connect("B", "C")

DeliverLine == \E n \in LineNodes, writer \in LineNodes : Deliver(n, writer)

(* a second passes while no message is in flight: a message crosses a     *)
(* connection in far less than the rate window                             *)
TickQuiet ==
    /\ \A c \in DOMAIN wire : wire[c] = <<>>
    /\ Tick(rate_window, MaxTicks)

NextLine == ConnectLine \/ DeliverLine \/ AnnounceOnLine \/ TickQuiet

InitLine == InitChain /\ InitNodes(LineNodes)

SpecLine == InitLine /\ [][NextLine]_vars

(* ----------------------- mining on the event loop --------------------- *)
(* Node B runs _mining_loop as a task of the event loop that also runs the *)
(* tasks reading its connections (main.py start); node A is its peer.  A   *)
(* task runs until its next await, and mine_block has none: the loop is    *)
(* free again at the await of broadcast_block or of asyncio.sleep.         *)
(* rpc_stopMining runs on the thread of the RPC server, at any time.       *)

MaxIterations == 5
MaxSearchPoints == 2
MaxMineCalls == 1
mining_sleep == 1000

loop_is_free == mining.at = "idle"

MinerStep(m) ==
    /\ mining' = m
    /\ UNCHANGED <<chain_vars, caller_vars, aux_vars, cache>>

EnterMineBlock(n) ==
    /\ loop_is_free
    /\ clock >= mining.sleep_until
    /\ mining.calls < MaxMineCalls
    /\ Len(net[n].chain) < MaxChain
    /\ MinerStep(enter_mine_block(mining, net[n].chain, net[n].pending, "a1",
                                  genesis_timestamp + target_block_time + clock \div 1000))

(* the loop test and one nonce; on return None the task sleeps (main.py 248) *)
NonceIteration ==
    /\ mining.at = "while"
    /\ LET m == nonce_iteration(mining, MaxIterations)
       IN  MinerStep([m EXCEPT !.sleep_until = IF m.at = "idle" THEN clock + mining_sleep
                                               ELSE @])

(* one search point; when it gives the solution mine_block returns the     *)
(* block and the task goes on to main.py 230-248                           *)
SearchPoint(n) ==
    /\ mining.at = "search"
    /\ \E matches \in BOOLEAN :
          LET m == search_point(mining, matches, MaxSearchPoints)
          IN  IF m.at = "idle"
              THEN /\ mining' = [m EXCEPT !.sleep_until = clock + mining_sleep]
                   /\ Wrote(n, mined_block(net[n], m.last.block[1], uuid[n], clock),
                            "_mining_loop")
              ELSE MinerStep(m)

StopMining ==
    /\ ~mining.stopped
    /\ mining.at # "idle" \/ mining.calls < MaxMineCalls
    /\ MinerStep(stop_mining(mining))

(* the task of B that reads the connection from A *)
ReadOnLoop == loop_is_free /\ Deliver("B", "A")

PeerReads == Deliver("A", "B")

PeerAnnounces == Len(net["A"].chain) < MaxChain - 1 /\ Announce("A")

(* time passes while no message is in flight *)
SleepEnds == (\A c \in DOMAIN wire : wire[c] = <<>>) /\ Tick(mining_sleep, MaxTicks)

NextMiner ==
    \/ EnterMineBlock("B")
    \/ NonceIteration
    \/ SearchPoint("B")
    \/ StopMining
    \/ Connect("A", "B")
    \/ ReadOnLoop
    \/ PeerReads
    \/ PeerAnnounces
    \/ SleepEnds

InitMiner == InitChain /\ InitNodes({"A", "B"})

SpecMiner == InitMiner /\ [][NextMiner]_vars

(* ------------------------- periodic retarget -------------------------- *)

(* blocks found after a quarter of the target time, or on time *)
RetargetTimestamps == {genesis_timestamp + 150, genesis_timestamp + 600}

get_block_by_index(c, index) ==
    IF 0 <= index /\ index < Len(c) THEN <<c[index + 1]>> ELSE <<>>

RECURSIVE collect_blocks(_, _, _)
collect_blocks(c, i, stop) ==
    IF i >= stop THEN <<>>
    ELSE get_block_by_index(c, i) \o collect_blocks(c, i + 1, stop)

(* FractalChainNode._adjust_difficulty: what it computes, and logs *)
_adjust_difficulty(c) ==
    LET chain_length == get_chain_length(c)
        start_index == IF chain_length - adjustment_interval > 0
                       THEN chain_length - adjustment_interval ELSE 0
        recent_blocks == collect_blocks(c, start_index, chain_length)
        current == get_difficulty(c)
    IN  IF Len(recent_blocks) >= 2
        THEN calculate_new_difficulty(recent_blocks, 1000 * current[1], current[2])
        ELSE <<>>

(* one pass of the node's main loop: the periodic difficulty adjustment.   *)
(* The new values are logged and kept nowhere.                             *)
AdjustDifficulty ==
    /\ should_adjust_difficulty(get_chain_length(chain))
    /\ call' = [op |-> "_adjust_difficulty", args |-> <<get_chain_length(chain)>>,
                result |-> _adjust_difficulty(chain)]
    /\ UNCHANGED <<chain_vars, thread_vars, staking_vars, net_vars>>

NextRetarget == MineBlockAt(RetargetTimestamps) \/ AdjustDifficulty \/ SendTransaction

SpecRetarget == Init /\ [][NextRetarget]_vars

(* ------------------------- reading the mempool ------------------------ *)

MaxCountInputs == {0, 1, 2, max_count}

(* Blockchain.get_pending_transactions: the call records the mempool it    *)
(* was made on, the limit and the list returned                            *)
GetPendingTransactions ==
    /\ \E limit \in MaxCountInputs :
          call' = [op |-> "get_pending_transactions",
                   args |-> <<pending_transactions, limit>>,
                   result |-> get_pending_transactions(pending_transactions, limit)]
    /\ UNCHANGED <<chain_vars, thread_vars, staking_vars, net_vars>>

NextMempool == MineBlock \/ SendTransaction \/ GetPendingTransactions

SpecMempool == Init /\ [][NextMempool]_vars

(* ---------------------- calls of stateless functions ------------------ *)

(* n blocks of which the first and the last are actual_time seconds apart *)
blocks_spanning(n, actual_time) ==
    [k \in 1..n |-> [timestamp |-> IF k = n /\ n > 1 THEN genesis_timestamp + actual_time
                                   ELSE genesis_timestamp]]

ActualTimes == {-600, 0, 100, 150, 300, 600, 700, 1200, 2400, 3000, 4800, 6000}

RecentBlocksInputs ==
    {blocks_spanning(n, 0) : n \in 0..1}
    \cup {blocks_spanning(n, (n - 1) * a) : n \in 2..MaxRecent, a \in ActualTimes}

TargetInputs == {1000000, 1400000, 1500000, 1520000, 1700000, 2000000}

BitsInputs == {4, 5, 16, 20, 32}

CalculateNewDifficulty ==
    /\ call = NoCall
    /\ \E recent_blocks \in RecentBlocksInputs, current_difficulty \in TargetInputs,
          current_header_bits \in BitsInputs :
          call' = [op |-> "calculate_new_difficulty",
                   args |-> <<recent_blocks, current_difficulty, current_header_bits>>,
                   result |-> calculate_new_difficulty(recent_blocks, current_difficulty,
                                                       current_header_bits)]
    /\ UNCHANGED <<chain_vars, thread_vars, staking_vars, net_vars>>

(* chain lengths around the first halvings and around the minimum reward *)
RewardHeights ==
    {0, 1, 2, halving_interval \div 2}
    \cup {k * halving_interval + e : k \in 1..MaxHalvings, e \in {-1, 0, 1}}

GetBlockReward ==
    /\ call = NoCall
    /\ \E height \in RewardHeights :
          call' = [op |-> "get_block_reward", args |-> <<height>>,
                   result |-> reward_of(height)]
    /\ UNCHANGED <<chain_vars, thread_vars, staking_vars, net_vars>>

(* header hashes of HexLen characters, each '0' or 'f' *)
HeaderHashInputs == [1..HexLen -> {0, 15}]

(* difficulty bits up to the width of the hash *)
DifficultyBitsInputs == 0..(4 * HexLen)

VerifyHeaderHash ==
    /\ call = NoCall
    /\ \E header_hash \in HeaderHashInputs, difficulty_bits \in DifficultyBitsInputs :
          call' = [op |-> "verify_header_hash", args |-> <<header_hash, difficulty_bits>>,
                   result |-> verify_header_hash(header_hash, difficulty_bits)]
    /\ UNCHANGED <<chain_vars, thread_vars, staking_vars, net_vars>>

FraudScores == {Absent, Null, Num(1), Num(9)}
OverallValids == {Absent, Bool(TRUE), Bool(FALSE)}
Confidences == {Absent, Null, Num(5), Num(9)}

ApiResults ==
    {<<>>, <<[kind |-> "list"]>>}
    \cup {<<[kind |-> "dict", fraud_score |-> f, overall_valid |-> o, confidence |-> c]>> :
             f \in FraudScores, o \in OverallValids, c \in Confidences}

AuditedBlocks ==
    {block_from_dict(data) : data \in PeerBlockDicts(create_genesis_block)}

HybridVerifyBlock ==
    /\ call = NoCall
    /\ \E block \in AuditedBlocks, use_ai_audit \in BOOLEAN, enabled \in BOOLEAN,
          api_result \in ApiResults :
          call' = [op |-> "hybrid_verify_block",
                   args |-> <<block, <<create_genesis_block>>, use_ai_audit, enabled,
                              api_result>>,
                   result |-> HybridVerifier_verify_block(block, <<create_genesis_block>>,
                                                          use_ai_audit, enabled, api_result)]
    /\ UNCHANGED <<chain_vars, thread_vars, staking_vars, net_vars>>

LeafHashes == {"a", "b", "c"}

HashLists == UNION {[1..n -> LeafHashes] : n \in 1..MaxLeaves}

GetProof ==
    /\ call = NoCall
    /\ \E transactions \in HashLists, transaction_hash \in LeafHashes :
          call' = [op |-> "get_proof",
                   args |-> <<transactions, transaction_hash>>,
                   result |-> get_proof(transactions, transaction_hash)]
    /\ UNCHANGED <<chain_vars, thread_vars, staking_vars, net_vars>>

(* lists next to a list of hashes: its last entry repeated, its last entry *)
(* dropped, one entry replaced                                             *)
ListsNextTo(hashes) ==
    {Append(hashes, hashes[Len(hashes)]), SubSeq(hashes, 1, Len(hashes) - 1)}
    \cup {[hashes EXCEPT ![k] = h] : k \in 1..Len(hashes), h \in LeafHashes}

(* MerkleTree.compute_merkle_root for the transaction lists of two blocks *)
ComputeMerkleRoots ==
    /\ call = NoCall
    /\ \E transactions \in HashLists : \E others \in ListsNextTo(transactions) :
          call' = [op |-> "compute_merkle_root",
                   args |-> <<transactions, others>>,
                   result |-> <<compute_merkle_root(transactions),
                                compute_merkle_root(others)>>]
    /\ UNCHANGED <<chain_vars, thread_vars, staking_vars, net_vars>>

NextCalls ==
    \/ CalculateNewDifficulty
    \/ GetBlockReward
    \/ VerifyHeaderHash
    \/ HybridVerifyBlock
    \/ GetProof
    \/ ComputeMerkleRoots

SpecCalls == Init /\ [][NextCalls]_vars

(* -------------------------- staking operations ------------------------ *)

StakerAddresses == {"a1", "a2"}
StakeAmounts == {500, 1000, 1200}
LockPeriods == {999, 1000}
StakeBlocks == {999, 1000}
StakeIndexes == {-2, -1, 0, 1}
StakeTime == genesis_timestamp

count_positions(st) ==
    LET RECURSIVE total(_)
        total(D) == IF D = {} THEN 0
                    ELSE LET a == CHOOSE x \in D : TRUE
                         IN  Len(st[a]) + total(D \ {a})
    IN  total(DOMAIN st)

Staked(outcome) ==
    /\ stakes' = outcome.st.stakes
    /\ total_staked' = outcome.st.total_staked
    /\ slash_history' = outcome.st.slash_history
    /\ UNCHANGED <<chain_vars, thread_vars, net_vars>>

CreateStakeAt(blocks) ==
    /\ count_positions(stakes) < MaxStakes
    /\ \E address \in StakerAddresses, amount \in StakeAmounts, lock_period \in LockPeriods,
          current_block \in blocks :
          /\ call' = [op |-> "create_stake",
                      args |-> <<address, amount, lock_period, current_block>>,
                      result |-> create_stake(StakingSystem, address, amount, lock_period,
                                              current_block, StakeTime).result]
          /\ Staked(create_stake(StakingSystem, address, amount, lock_period, current_block,
                                 StakeTime))

CreateStake == CreateStakeAt({0})

UpdateRewards ==
    /\ call' = [op |-> "update_rewards", args |-> <<1000>>, result |-> <<>>]
    /\ Staked([st |-> update_rewards(StakingSystem, 1000)])

InitiateWithdrawal ==
    \E address \in StakerAddresses, stake_index \in StakeIndexes, current_block \in StakeBlocks :
        /\ call' = [op |-> "initiate_withdrawal",
                    args |-> <<address, stake_index, current_block>>,
                    result |-> initiate_withdrawal(StakingSystem, address, stake_index,
                                                   current_block).result]
        /\ Staked(initiate_withdrawal(StakingSystem, address, stake_index, current_block))

CompleteWithdrawal ==
    \E address \in StakerAddresses, stake_index \in StakeIndexes :
        /\ call' = [op |-> "complete_withdrawal", args |-> <<address, stake_index>>,
                    result |-> complete_withdrawal(StakingSystem, address, stake_index).result]
        /\ Staked(complete_withdrawal(StakingSystem, address, stake_index))

SlashValidator ==
    /\ Len(slash_history) < MaxSlashes
    /\ \E address \in StakerAddresses :
          /\ call' = [op |-> "slash_validator", args |-> <<address, 1, "fraud">>,
                      result |-> slash_validator(StakingSystem, address, 1, "fraud",
                                                 StakeTime).result]
          /\ Staked(slash_validator(StakingSystem, address, 1, "fraud", StakeTime))

NextStaking ==
    \/ CreateStake
    \/ UpdateRewards
    \/ InitiateWithdrawal
    \/ CompleteWithdrawal
    \/ SlashValidator

SpecStaking == Init /\ [][NextStaking]_vars

(* create_stake at several heights, without the withdrawals *)
CreateBlocks == {0, 7}

NextStakeCreate == CreateStakeAt(CreateBlocks) \/ UpdateRewards \/ SlashValidator

SpecStakeCreate == Init /\ [][NextStakeCreate]_vars

(* --------------------------- cache operations ------------------------- *)

MaxCacheSize == 2
MaxLookups == 3
CacheTicks == 2
CacheKeys == {"key1", "key2", "key3"}
CacheValues == {"value1", "value2"}

(* key becomes the key used last *)
used(uses, key) == Append(SelectSeq(uses, LAMBDA k : k # key), key)

CacheStep(c, op, args, result) ==
    /\ cache' = c
    /\ call' = [op |-> op, args |-> args, result |-> result]
    /\ UNCHANGED <<chain_vars, caller_vars, mining, staking_vars, net_vars>>

NewCache ==
    /\ cache = NoCache
    /\ \E max_size \in 1..MaxCacheSize, ttl \in {<<>>, <<1>>} :
          CacheStep(LRUCache(max_size, ttl), "LRUCache", <<max_size, ttl>>, <<>>)

CachePut ==
    /\ cache # NoCache
    /\ \E key \in CacheKeys, value \in CacheValues :
          CacheStep([LRUCache_put(cache, key, value, clock) EXCEPT !.uses = used(@, key)],
                    "put", <<key, value>>, <<>>)

CacheGet ==
    /\ cache # NoCache
    /\ cache.hits + cache.misses < MaxLookups
    /\ \E key \in CacheKeys :
          LET r == LRUCache_get(cache, key, clock)
          IN  CacheStep([r.obj EXCEPT !.uses = IF r.found # <<>> THEN used(@, key) ELSE @],
                        "get", <<key>>, r.found)

CacheDelete ==
    /\ cache # NoCache
    /\ \E key \in CacheKeys : CacheStep(LRUCache_delete(cache, key), "delete", <<key>>, <<>>)

CacheTick == Tick(1000, CacheTicks)

NextCache == NewCache \/ CachePut \/ CacheGet \/ CacheDelete \/ CacheTick

SpecCache == Init /\ [][NextCache]_vars

(* ------------------------------ properties ---------------------------- *)

RECURSIVE sum_over(_, _)
sum_over(f, S) ==
    IF S = {} THEN 0
    ELSE LET x == CHOOSE y \in S : TRUE IN f[x] + sum_over(f, S \ {x})

total_balance(bal) == sum_over(bal, DOMAIN bal)

get_total_fees(b) ==
    sum_fees(SelectSeq(b.transactions, LAMBDA tx : tx.sender # COINBASE), 1)

AllAddresses == Addresses \cup {COINBASE, GENESIS}

TxArguments == TxInputs(Len(chain)) \cup {tx_from_dict(d) : d \in PeerTxDicts}

block_appended == Len(chain') = Len(chain) + 1

appended_block == chain'[Len(chain')]

chain_txs == UNION {{chain[i].transactions[k] : k \in 1..Len(chain[i].transactions)} :
                       i \in 1..Len(chain)}

pending_txs == {pending_transactions[k] : k \in 1..Len(pending_transactions)}

(* C1: after any sequence of add_block calls, accepted or rejected,        *)
(* is_valid_chain() is true: each block passes is_valid against the one    *)
(* before it.                                                              *)
C1_ValidChain == is_valid_chain(chain)

C1_Witness ==
    /\ Len(chain) >= 2
    /\ chain[2].index = 1
    /\ ret.op = "add_block"
    /\ ~ret.ok

(* C2: at every position i > 0 the block's previous_hash is the hash of    *)
(* the block before it and its index is that block's index plus one.       *)
C2_LinkedChain ==
    \A i \in 2..Len(chain) :
        /\ chain[i].previous_hash = chain[i - 1].block_hash
        /\ chain[i].index = chain[i - 1].index + 1

(* C3: add_block and add_transaction behave as if serialized: a mempool    *)
(* append that returned true is still pending or was included in a block,  *)
(* and no two blocks of the chain were appended on the same tip.           *)
C3_Serialized ==
    /\ \A h \in acked :
          \/ \E tx \in pending_txs : tx.tx_hash = h
          \/ \E tx \in chain_txs : tx.tx_hash = h
    /\ \A i, j \in 1..Len(chain) :
          i < j => chain[i].previous_hash # chain[j].previous_hash

(* C4: every block of index above 0 accepted by add_block changes the sum  *)
(* of all confirmed balances by exactly the block reward at its height.    *)
C4_BalanceConservation ==
    [][(block_appended /\ appended_block.index # 0) =>
          total_balance(balances') - total_balance(balances)
              = block_reward_at(Len(chain))]_vars

(* C5: in every non-genesis block of the chain the coinbase amount is at   *)
(* most the block reward at that height plus the fees of the block's       *)
(* non-coinbase transactions.                                              *)
C5_CoinbaseBounded ==
    \A i \in 2..Len(chain) :
        chain[i].index # 0 =>
            \A k \in 1..Len(chain[i].transactions) :
                chain[i].transactions[k].sender = COINBASE =>
                    chain[i].transactions[k].amount
                        <= block_reward_at(i - 1) + get_total_fees(chain[i])

(* C6: every non-coinbase transaction of an accepted block has a sender    *)
(* whose confirmed balance at the start of the block covers amount + fee,  *)
(* and no confirmed balance is ever negative.                              *)
C6_SufficientBalance ==
    /\ [](\A a \in DOMAIN balances : balances[a] >= 0)
    /\ [][(block_appended /\ appended_block.index # 0) =>
             \A k \in 1..Len(appended_block.transactions) :
                 LET tx == appended_block.transactions[k]
                 IN  tx.sender \notin {COINBASE, GENESIS} =>
                         balance_of(balances, tx.sender) >= tx.amount + tx.fee]_vars

(* C7: every non-genesis block of the chain holds exactly one coinbase     *)
(* transaction and it is the first transaction of the block.               *)
C7_SingleLeadingCoinbase ==
    \A i \in 2..Len(chain) :
        chain[i].index # 0 =>
            /\ Len(coinbase_txs(chain[i])) = 1
            /\ chain[i].transactions[1].sender = COINBASE

pending_covered(bal, pend) ==
    \A a \in AllAddresses : pending_outgoing(pend, a, 1) <= balance_of(bal, a)

(* C8: add_transaction rejects, with the mempool unchanged, a non-coinbase *)
(* transaction whose sender's spendable balance is below amount + fee; and *)
(* while no block is added the amount + fee pending for any address stays  *)
(* within its confirmed balance.                                           *)
C8_SpendableBalance ==
    /\ [][ret'.op = "add_transaction" =>
             \A tx \in TxArguments :
                 (/\ tx.sender # COINBASE
                  /\ get_balance(balances, pending_transactions, tx.sender)
                         < tx.amount + tx.fee
                  /\ add_transaction(tx))
                 => (~ret'.ok /\ pending_transactions' = pending_transactions)]_vars
    /\ [][(chain' = chain /\ pending_covered(balances, pending_transactions))
             => pending_covered(balances', pending_transactions')]_vars

(* C9: every transaction in the mempool or in a block of the chain carries *)
(* as tx_hash the canonical hash of its fields sender, recipient, amount,  *)
(* fee and timestamp.                                                      *)
C9_CanonicalTxHash ==
    \A tx \in pending_txs \cup chain_txs : tx.tx_hash = calculate_tx_hash(tx)

no_duplicate_hash(pend) ==
    \A i, j \in 1..Len(pend) : i # j => pend[i].tx_hash # pend[j].tx_hash

(* C10: the mempool never holds two transactions with the same tx_hash,    *)
(* and add_transaction of a transaction whose tx_hash is already pending   *)
(* returns false and leaves the mempool unchanged.                         *)
C10_NoDuplicatePending ==
    [][/\ no_duplicate_hash(pending_transactions')
       /\ ret'.op = "add_transaction" =>
             \A tx \in TxArguments :
                 (/\ \E k \in 1..Len(pending_transactions) :
                        pending_transactions[k].tx_hash = tx.tx_hash
                  /\ add_transaction(tx))
                 => (~ret'.ok /\ pending_transactions' = pending_transactions)]_vars

C10_Witness ==
    /\ ret.op = "add_transaction"
    /\ ret.why = "duplicate"
    /\ ~ret.ok
    /\ Len(pending_transactions) >= 1

(* C11: every block of the chain, blocks taken from peers included, has a  *)
(* difficulty_target within [1.0, 2.0] and header_difficulty_bits within   *)
(* [4, 32].                                                                *)
C11_DifficultyInRange ==
    \A i \in 1..Len(chain) :
        /\ 1000 <= chain[i].difficulty_target /\ chain[i].difficulty_target <= 2000
        /\ 4 <= chain[i].header_difficulty_bits /\ chain[i].header_difficulty_bits <= 32

(* C12: when the chain length h is above 0 and a multiple of the           *)
(* adjustment interval, the pair retargeted from the last interval blocks  *)
(* is the difficulty of the next block, the block of index h.              *)
C12_RetargetApplied ==
    \A h \in 1..(Len(chain) - 1) :
        should_adjust_difficulty(h) /\ _adjust_difficulty(SubSeq(chain, 1, h)) # <<>> =>
            /\ 1000 * chain[h + 1].difficulty_target = _adjust_difficulty(SubSeq(chain, 1, h))[1]
            /\ chain[h + 1].header_difficulty_bits = _adjust_difficulty(SubSeq(chain, 1, h))[2]

in_range(pair) ==
    /\ 1000000 <= pair[1] /\ pair[1] <= 2000000
    /\ 4 <= pair[2] /\ pair[2] <= 32

span_of(blocks) == blocks[Len(blocks)].timestamp - blocks[1].timestamp

expected_of(blocks) == target_block_time * (Len(blocks) - 1)

clamp_target(x) == IF x < 1000000 THEN 1000000 ELSE IF x > 2000000 THEN 2000000 ELSE x

halve(r) == [r EXCEPT !.e2 = @ + 1]

(* r >= 1e-8 for a reward r with e10 = 0: 2^e2 <= n * 10^8 *)
not_below_minimum(r) == r.e2 < 8 \/ pow2(r.e2 - 8) <= r.n * 390625

(* C15: get_block_reward is 50 for every height below 210 000, 25 at       *)
(* height 210 000, half the reward of 210 000 blocks earlier at every      *)
(* later height unless that is below 1e-8, and never below 1e-8.           *)
C15_RewardHalving ==
    call.op = "get_block_reward" =>
        LET height == call.args[1]
            earlier == reward_of(height - halving_interval)
        IN  /\ height < halving_interval => call.result = [n |-> 50, e2 |-> 0, e10 |-> 0]
            /\ height = halving_interval => call.result = [n |-> 50, e2 |-> 1, e10 |-> 0]
            /\ height >= halving_interval =>
                   call.result = IF earlier.e10 = 0 /\ not_below_minimum(halve(earlier))
                                 THEN halve(earlier)
                                 ELSE [n |-> 1, e2 |-> 0, e10 |-> 8]
            /\ call.result.e10 = 0 => not_below_minimum(call.result)
            /\ call.result.e10 # 0 => call.result = [n |-> 1, e2 |-> 0, e10 |-> 8]

C15_Witness ==
    /\ call.op = "get_block_reward"
    /\ call.args[1] = 33 * halving_interval
    /\ call.result = [n |-> 1, e2 |-> 0, e10 |-> 8]

position_in(pend, tx) == CHOOSE k \in 1..Len(pend) : pend[k] = tx

(* C17: get_pending_transactions(max_count) returns at most max_count      *)
(* transactions of the mempool, each once, in non-increasing fee order     *)
(* with equal fees in their mempool order, and leaves the mempool as it    *)
(* was.                                                                    *)
C17_PendingByFee ==
    [][(call'.op = "get_pending_transactions" /\ call' # call) =>
          LET pend == pending_transactions
              limit == call'.args[2]
              r == call'.result
          IN  /\ pending_transactions' = pend
              /\ call'.args[1] = pend
              /\ Len(r) <= limit
              /\ \A i \in 1..Len(r) : \E k \in 1..Len(pend) : pend[k] = r[i]
              /\ \A i, j \in 1..Len(r) :
                    i < j => /\ r[i].fee >= r[j].fee
                             /\ r[i] # r[j]
                             /\ r[i].fee = r[j].fee =>
                                    position_in(pend, r[i]) < position_in(pend, r[j])]_vars

(* two pending transactions of equal fee returned behind one of higher fee *)
C17_Witness ==
    /\ call.op = "get_pending_transactions"
    /\ call.args[1] = pending_transactions
    /\ Len(call.result) >= 2
    /\ \E i \in 1..(Len(call.result) - 1) : call.result[i].fee = call.result[i + 1].fee

(* C18: HybridVerifier.verify_block returns the validity verdict of        *)
(* BlockVerifier.verify_block, whatever use_ai_audit is and whatever the   *)
(* AI audit returns.                                                       *)
C18_AuditAdvisory ==
    call.op = "hybrid_verify_block" =>
        /\ ~call.result.raised
        /\ call.result.is_valid = verify_block(call.args[1], call.args[2])[1]

(* every value held by a node of the tree over the list *)
tree_nodes(transactions) ==
    LET tree == tree_levels(transactions)
    IN  UNION {{tree[l][k] : k \in 1..Len(tree[l])} : l \in 1..Len(tree)}

TamperValues(transactions) == LeafHashes \cup tree_nodes(transactions) \cup {"", "d"}

(* C19: the proof get_proof returns for a member h of a non-empty list H   *)
(* verifies against the root of H, and it stops verifying when h or one    *)
(* sibling of the proof is replaced by a different value.                  *)
C19_MerkleProofSound ==
    (call.op = "get_proof" /\ call.result # <<>>) =>
        LET H == call.args[1]
            h == call.args[2]
            proof == call.result[1]
            root == compute_merkle_root(H)
        IN  /\ verify_proof(h, root, proof)
            /\ \A v \in TamperValues(H) \ {h} : ~verify_proof(v, root, proof)
            /\ \A k \in 1..Len(proof) : \A v \in TamperValues(H) \ {proof[k][1]} :
                   ~verify_proof(h, root, [proof EXCEPT ![k] = <<v, proof[k][2]>>])

C19_Witness ==
    /\ call.op = "get_proof"
    /\ call.args[1] = <<"a", "b", "a", "c">>
    /\ call.args[2] = "a"
    /\ call.result = <<<<<<"b", "right">>, <<sha256("ac"), "right">>>>>>

(* the position at place k of an address changes its status in this step   *)
(* only along an edge that the operation of the step allows                *)
allowed_edge(old, new, op, current_block) ==
    \/ old.status = new.status
    \/ /\ old.status = "active" /\ new.status = "unlocking"
       /\ op = "initiate_withdrawal" /\ current_block >= old.unlock_block
    \/ old.status = "unlocking" /\ new.status = "withdrawn" /\ op = "complete_withdrawal"
    \/ old.status = "active" /\ new.status = "slashed" /\ op = "slash_validator"

(* C20: a stake position's status changes only from active to unlocking    *)
(* (by initiate_withdrawal at a block not below unlock_block), from        *)
(* unlocking to withdrawn (by complete_withdrawal) and from active to      *)
(* slashed (by slash_validator); withdrawn and slashed are never left; a   *)
(* failed initiate_withdrawal or complete_withdrawal changes no position.  *)
C20_StakeStatusMachine ==
    [][/\ \A a \in DOMAIN stakes :
              /\ a \in DOMAIN stakes'
              /\ Len(stakes'[a]) >= Len(stakes[a])
              /\ \A k \in 1..Len(stakes[a]) :
                     allowed_edge(stakes[a][k], stakes'[a][k], call'.op,
                                  IF call'.op = "initiate_withdrawal" THEN call'.args[3] ELSE 0)
       /\ (call'.op \in {"initiate_withdrawal", "complete_withdrawal"} /\ ~call'.result[1])
              => UNCHANGED staking_vars]_vars

C20_Witness ==
    /\ call.op = "complete_withdrawal"
    /\ call.result[1]
    /\ \E a \in DOMAIN stakes : \E k \in 1..Len(stakes[a]) : stakes[a][k].status = "withdrawn"
    /\ \E a \in DOMAIN stakes : \E k \in 1..Len(stakes[a]) : stakes[a][k].status = "slashed"

(* C21: create_stake fails and leaves stakes and total_staked unchanged    *)
(* when amount < min_stake_amount or lock_period < min_lock_period;        *)
(* otherwise it appends exactly one position, active, of the given amount  *)
(* and with unlock_block = current_block + lock_period, and changes no     *)
(* existing position.                                                      *)
C21_CreateStake ==
    [][call'.op = "create_stake" =>
          LET address == call'.args[1]
              amount == call'.args[2]
              lock_period == call'.args[3]
              current_block == call'.args[4]
              before == IF address \in DOMAIN stakes THEN stakes[address] ELSE <<>>
          IN  IF amount < min_stake_amount \/ lock_period < min_lock_period
              THEN ~call'.result[1] /\ stakes' = stakes /\ total_staked' = total_staked
              ELSE /\ call'.result[1]
                   /\ DOMAIN stakes' = DOMAIN stakes \cup {address}
                   /\ \A a \in DOMAIN stakes \ {address} : stakes'[a] = stakes[a]
                   /\ Len(stakes'[address]) = Len(before) + 1
                   /\ SubSeq(stakes'[address], 1, Len(before)) = before
                   /\ stakes'[address][Len(before) + 1].status = "active"
                   /\ stakes'[address][Len(before) + 1].amount = amount
                   /\ stakes'[address][Len(before) + 1].unlock_block = current_block + lock_period
    ]_vars

C21_Witness ==
    /\ call.op = "create_stake"
    /\ call.result[1]
    /\ call.args[4] = 7
    /\ Len(stakes[call.args[1]]) = 2
    /\ stakes[call.args[1]][1].status = "slashed"
    /\ stakes[call.args[1]][2].unlock_block = 7 + min_lock_period

RECURSIVE total_amounts(_, _)
total_amounts(positions, k) ==
    IF k > Len(positions) THEN 0 ELSE positions[k].amount + total_amounts(positions, k + 1)

(* what slash_validator is to make of one position of the slashed address *)
slashed_position(old, new) ==
    IF old.status = "active"
    THEN /\ new.amount = old.amount - (old.amount * slash_percentage) \div 100
         /\ new.status = (IF new.amount < min_stake_amount THEN "slashed" ELSE "active")
         /\ [new EXCEPT !.amount = old.amount, !.status = old.status] = old
    ELSE new = old

slash_effect(address) ==
    /\ DOMAIN stakes' = DOMAIN stakes
    /\ \A a \in DOMAIN stakes \ {address} : stakes'[a] = stakes[a]
    /\ address \in DOMAIN stakes =>
           /\ Len(stakes'[address]) = Len(stakes[address])
           /\ \A k \in 1..Len(stakes[address]) :
                  slashed_position(stakes[address][k], stakes'[address][k])
    /\ Len(slash_history') = Len(slash_history) + 1
    /\ SubSeq(slash_history', 1, Len(slash_history)) = slash_history
    /\ slash_history'[Len(slash_history')].slash_amount
           = (IF address \in DOMAIN stakes THEN total_amounts(stakes[address], 1) ELSE 0)
             - (IF address \in DOMAIN stakes' THEN total_amounts(stakes'[address], 1) ELSE 0)

(* C22 as stated: every call of slash_validator slashes the active         *)
(* positions of the address, appends one slash record of the total         *)
(* removed, and changes nothing else.                                      *)
C22_SlashAlways ==
    [][call'.op = "slash_validator" => slash_effect(call'.args[1])]_vars

(* C22: for an address that has an entry in stakes, slash_validator        *)
(* reduces each active position by slash_percentage of its amount, marks   *)
(* it slashed iff the reduced amount is below min_stake_amount, appends    *)
(* one slash record of the total removed and changes no other position;    *)
(* for an address without an entry it fails and changes nothing.           *)
C22_SlashValidator ==
    [][call'.op = "slash_validator" =>
          IF call'.args[1] \in DOMAIN stakes
          THEN call'.result[1] /\ slash_effect(call'.args[1])
          ELSE ~call'.result[1] /\ UNCHANGED staking_vars]_vars

C22_Witness ==
    /\ call.op = "slash_validator"
    /\ call.result[1]
    /\ "a1" \in DOMAIN stakes
    /\ \E k \in 1..Len(stakes["a1"]) : stakes["a1"][k].status = "slashed"
    /\ \E k \in 1..Len(stakes["a1"]) : stakes["a1"][k].status = "unlocking"
    /\ call.args[1] = "a1"
    /\ Len(slash_history) = 1
    /\ slash_history[1].slash_amount = 100

(* the chain state of the node when block k of a BLOCKS payload is reached *)
sync_state_before(blocks_data, k) ==
    sync_blocks([chain |-> chain, balances |-> balances, pending |-> pending_transactions,
                 ok |-> TRUE], SubSeq(blocks_data, 1, k - 1), 1)

sync_block_fails(blocks_data, k) ==
    LET block == block_from_dict(blocks_data[k])
    IN  ~hybrid_verify_block(block, get_block_by_hash(sync_state_before(blocks_data, k).chain,
                                                      block.previous_hash))[1]

(* C28: the blocks of a BLOCKS message are verified in the order received  *)
(* and the first block that fails verification ends the sync: no later     *)
(* block of the message is appended.                                       *)
C28_SyncAborts ==
    [][(ret'.op = "blocks" /\ call'.op = "_handle_blocks") =>
          \A k \in 1..Len(call'.args[1]) :
              sync_block_fails(call'.args[1], k) =>
                  chain' = sync_state_before(call'.args[1], k).chain]_vars

(* the step is the reading of a message by a node: call' then holds that   *)
(* message, the node and the connection, and where the message ended       *)
reads_message ==
    /\ call'.op = "_process_message"
    /\ \/ received' # received
       \/ \E c \in DOMAIN wire : Len(wire'[c]) < Len(wire[c])

(* C23: a message whose msg_id is in the node's seen_messages is dropped:  *)
(* no handler runs, nothing is written, the chain and the peers stay as    *)
(* they are; and between two clears of seen_messages a node dispatches     *)
(* each msg_id at most once.                                               *)
C23_SeenDropped ==
    /\ [](\A n \in DOMAIN net : \A msg_id \in DOMAIN handled[n] : handled[n][msg_id] <= 1)
    /\ [][reads_message /\ call'.args[3].msg_id \in net[call'.args[1]].seen_messages
              => /\ call'.result[1] # "dispatched"
                 /\ call'.result[2] = <<>>
                 /\ handled' = handled
                 /\ \A f \in {"chain", "balances", "pending", "peers", "peer_connections",
                              "seen_messages"} :
                        net'[call'.args[1]][f] = net[call'.args[1]][f]]_vars

(* a NEW_BLOCK with a block the node would append was dropped as a         *)
(* duplicate of a msg_id seen before                                       *)
C23_Witness ==
    /\ call.op = "_process_message"
    /\ call.result[1] = "duplicate"
    /\ call.args[3].msg_type = "new_block"
    /\ call.args[3].msg_id \in net["B"].seen_messages
    /\ Len(net["B"].chain) = 1

(* the block of a NEW_BLOCK message that a node read, <<>> without one *)
block_read ==
    IF call.op = "_process_message" /\ call.args[3].msg_type = "new_block"
           /\ call.args[3].payload.block_data # <<>>
    THEN <<block_from_dict(call.args[3].payload.block_data[1])>>
    ELSE <<>>

(* the messages written while the message of call' was read carry block    *)
rebroadcast_of(block) ==
    /\ call'.result[2] # <<>>
    /\ \A k \in 1..Len(call'.result[2]) :
           /\ call'.result[2][k].message.msg_type = "new_block"
           /\ block_from_dict(call'.result[2][k].message.payload.block_data[1]) = block

(* C27: when a node reads a NEW_BLOCK message, its chain grows only by the *)
(* block of the message and only if that block passes quick_verify and     *)
(* verify_block; new_block messages are written only if add_block          *)
(* appended the block; a block that fails quick_verify, verify_block or    *)
(* add_block leaves the chain as it was and nothing is written.            *)
C27_VerifyThenAppendThenRebroadcast ==
    [][reads_message /\ call'.args[3].msg_type = "new_block"
          => LET node == net[call'.args[1]]
                 after == net'[call'.args[1]]
                 data == call'.args[3].payload.block_data
                 block == block_from_dict(data[1])
                 passes == /\ call'.result[1] = "dispatched"
                           /\ data # <<>>
                           /\ quick_verify(block)
                           /\ verify_block(block,
                                           get_block_by_hash(node.chain, block.previous_hash))[1]
                 added == passes /\ add_block_accepts(node.chain, block)
             IN  /\ after.chain # node.chain => passes /\ after.chain = Append(node.chain, block)
                 /\ call'.result[2] # <<>> => added /\ after.chain = Append(node.chain, block)
                                              /\ rebroadcast_of(block)
                 /\ ~added => after.chain = node.chain /\ after.balances = node.balances
                              /\ call'.result[2] = <<>>
                 /\ added => after.chain = Append(node.chain, block)]_vars

(* a block that passed both verifications but not add_block, because it    *)
(* stands on an older block, reached a node that had a peer to write to,   *)
(* and nothing was written                                                 *)
C27_Witness ==
    /\ block_read # <<>>
    /\ call.result[1] = "dispatched"
    /\ quick_verify(block_read[1])
    /\ Len(net["B"].chain) = 2
    /\ block_read[1].previous_hash = net["B"].chain[1].block_hash
    /\ block_read[1].index = 1
    /\ block_read[1].block_hash # net["B"].chain[2].block_hash
    /\ "C" \in DOMAIN net["B"].peer_connections
    /\ call.result[2] = <<>>

(* the connections of a node's peer table *)
connected(node) == {node.peer_connections[p] : p \in DOMAIN node.peer_connections}

(* the connections written to while the message of call' was read *)
written_to == {call'.result[2][k].writer : k \in 1..Len(call'.result[2])}

(* C24: when a node reads a NEW_BLOCK or NEW_TRANSACTION message and       *)
(* appends the block or adds the transaction, it writes the block or       *)
(* transaction to every connection of its peer table except the            *)
(* connection the message came on, and not to that one.                    *)
C24_FloodExceptSender ==
    [][reads_message /\ call'.args[3].msg_type \in {"new_block", "new_transaction"}
          /\ \/ net'[call'.args[1]].chain # net[call'.args[1]].chain
             \/ net'[call'.args[1]].pending # net[call'.args[1]].pending
          => written_to = connected(net[call'.args[1]]) \ {call'.args[2]}]_vars

(* C26: no node's chain holds two blocks with the same block_hash.         *)
C26_NoBlockTwice ==
    \A n \in DOMAIN net :
        \A i \in 1..Len(net[n].chain) : \A j \in 1..Len(net[n].chain) :
            net[n].chain[i].block_hash = net[n].chain[j].block_hash => i = j

(* the messages of peer_id that passed at node n in the second that starts *)
(* with the i-th of them                                                   *)
window_from(n, peer_id, i) ==
    SelectSeq(passed[n][peer_id],
              LAMBDA e : /\ passed[n][peer_id][i].time <= e.time
                         /\ e.time < passed[n][peer_id][i].time + rate_window)

RECURSIVE bytes_of(_, _)
bytes_of(entries, k) == IF k > Len(entries) THEN 0 ELSE entries[k].size + bytes_of(entries, k + 1)

maintenance_round(n) ==
    /\ call'.op = "_peer_maintenance_loop"
    /\ call'.args[1] = n
    /\ net'[n].maintenance_at # net[n].maintenance_at

(* the time since node n last read a message on the connection of peer p *)
silence(n, p) ==
    IF net[n].peer_connections[p] \in DOMAIN last_traffic[n]
    THEN clock - last_traffic[n][net[n].peer_connections[p]]
    ELSE clock

(* C30: a round of the maintenance loop removes the peers from which       *)
(* nothing was read for more than 300 s, and a peer from which a message   *)
(* of any type was read within the last 300 s stays in the peer table.     *)
C30_PrunedWhenSilent ==
    [][\A n \in DOMAIN net :
           maintenance_round(n)
           => \A p \in DOMAIN net[n].peers :
                  /\ silence(n, p) > stale_after => p \notin DOMAIN net'[n].peers
                  /\ silence(n, p) < stale_after => p \in DOMAIN net'[n].peers]_vars

(* the three nodes have the same latest block *)
same_tip ==
    /\ get_latest_block(net["A"].chain) = get_latest_block(net["B"].chain)
    /\ get_latest_block(net["B"].chain) = get_latest_block(net["C"].chain)

(* a connection holds a message that was not read yet *)
in_flight == \E c \in DOMAIN wire : wire[c] # <<>>

(* C25: on the line A-B-C, where A announces new blocks on the tip that    *)
(* the three nodes share, the three nodes have the same latest block_hash  *)
(* once every message has been read: whenever nothing is in flight, the    *)
(* eventual state of the claim has been reached.                           *)
C25_LineConverges ==
    line_is_up /\ ~in_flight /\ Len(net["A"].chain) > 1 => same_tip

(* C31: once stop_mining has been called, before or during mine_block, at  *)
(* most one more nonce iteration and at most one more search point are     *)
(* started, and the mine_block call it cancels returns no block.           *)
C31_StopObserved ==
    /\ mining.stopped => mining.begun <= 1 /\ mining.points <= 1
    /\ mining.last.stopped => mining.last.block = <<>>

(* C32: while mine_block is running on node B and a message from A waits   *)
(* on the connection, the task reading the connection can take its step.   *)
C32_ReadWhileMining ==
    ~loop_is_free /\ wire[<<"A", "B">>] # <<>> => ENABLED ReadOnLoop

RECURSIVE debits_of(_, _, _)
debits_of(txs, address, k) ==
    IF k > Len(txs) THEN 0
    ELSE (IF txs[k].sender = address THEN txs[k].amount + txs[k].fee ELSE 0)
         + debits_of(txs, address, k + 1)

RECURSIVE credits_of(_, _, _)
credits_of(txs, address, k) ==
    IF k > Len(txs) THEN 0
    ELSE (IF txs[k].recipient = address THEN txs[k].amount ELSE 0)
         + credits_of(txs, address, k + 1)

(* the transactions mine_block took from the mempool *)
included_in(block) == Tail(block.transactions)

mining_step_of(mined) ==
    \/ ret'.op = "mine_block"
    \/ block_appended /\ appended_block = mined[1]

(* C33: a block that mine_block returns on the current tip passes the      *)
(* verifier and add_block; the chain grows by that block, its transactions *)
(* leave the mempool, every address is debited amount + fee for what it    *)
(* sent and credited the amount of what it received in the block, and the  *)
(* miner is credited the block reward plus the fees of the block.          *)
C33_MinedBlockApplied ==
    [][\A m \in Miners, now \in Timestamps :
          LET mined == mine_block(chain, pending_transactions, m, now)
              included == included_in(mined[1])
          IN  (mined # <<>> /\ mining_step_of(mined)) =>
                  /\ verify_block(mined[1], get_latest_block(chain))[1]
                  /\ chain' = Append(chain, mined[1])
                  /\ \A k \in 1..Len(included) : included[k] \notin pending_txs'
                  /\ \A a \in DOMAIN balances' :
                        balance_of(balances', a)
                            = balance_of(balances, a) - debits_of(included, a, 1)
                              + credits_of(included, a, 1)
                              + (IF a = m THEN get_block_reward(chain) + sum_fees(included, 1)
                                 ELSE 0)]_vars

(* C36: no transaction in the mempool has the sender COINBASE, and every   *)
(* transaction in the mempool carries a signature that verifies.           *)
C36_SignedMempool ==
    \A tx \in pending_txs : tx.sender # COINBASE /\ verify_signature(tx)

cached_keys(c) == {c.cache[k][1] : k \in 1..Len(c.cache)}

(* the key in the cache whose last use lies furthest back *)
least_recently_used(c) ==
    CHOOSE key \in cached_keys(c) :
        \A other \in cached_keys(c) : position_in(c.uses, key) <= position_in(c.uses, other)

put_of_new_key_when_full ==
    /\ cache # NoCache
    /\ cache' # cache
    /\ call'.op = "put"
    /\ call'.args[1] \notin cached_keys(cache)
    /\ Len(cache.cache) = cache.max_size

(* C34: the cache never holds more than max_size entries, and a put of a   *)
(* new key into a full cache removes exactly the key used least recently,  *)
(* a use being a put or a get that hit, and adds the new key.              *)
C34_LRUEviction ==
    /\ [](cache # NoCache => Len(cache.cache) <= cache.max_size)
    /\ [][put_of_new_key_when_full =>
             cached_keys(cache') = (cached_keys(cache) \ {least_recently_used(cache)})
                                       \cup {call'.args[1]}]_vars

C34_Witness ==
    /\ cache # NoCache
    /\ call.op = "put"
    /\ cache.hits = 1
    /\ od_keys(cache.cache) = <<"key1", "key3">>
    /\ cache.uses = <<"key2", "key1", "key3">>

(* the positions <<block, transaction>> of the chain *)
chain_positions ==
    {p \in (1..Len(chain)) \X (1..(MaxPending + 2)) : p[2] <= Len(chain[p[1]].transactions)}

hash_at(p) == chain[p[1]].transactions[p[2]].tx_hash

(* C35: no tx_hash is in the mempool and in a block of the chain at once,  *)
(* and no tx_hash stands at two places of the chain.                       *)
C35_AppliedOnce ==
    /\ \A tx \in pending_txs : \A p \in chain_positions : hash_at(p) # tx.tx_hash
    /\ \A p, q \in chain_positions : p # q => hash_at(p) # hash_at(q)

(* C37: two lists of transaction hashes that differ have different Merkle *)
(* roots, so the merkle_root under a block hash stands for one list only.  *)
C37_RootBindsList ==
    call.op = "compute_merkle_root" =>
        (call.args[1] # call.args[2] => call.result[1] # call.result[2])

RECURSIVE staked_amount(_, _)
staked_amount(positions, k) ==
    IF k > Len(positions) THEN 0
    ELSE (IF positions[k].status \in {"active", "unlocking"} THEN positions[k].amount ELSE 0)
         + staked_amount(positions, k + 1)

(* C38: total_staked is the sum of the amounts of the positions that are   *)
(* active or unlocking.                                                    *)
C38_TotalStaked ==
    total_staked = sum_over([a \in DOMAIN stakes |-> staked_amount(stakes[a], 1)], DOMAIN stakes)

(* the messages node n has created for the connection to p: in SpecLine    *)
(* these are the HELLO of _connect_to_peer and the HELLOs of _handle_hello  *)
hellos_sent(n, p) == IF p \in DOMAIN uuid[n] THEN uuid[n][p] ELSE 0

reads_hello(n, p) ==
    /\ call'.op = "_process_message"
    /\ call'.args[1] = n
    /\ call'.args[2] = p
    /\ call'.args[3].msg_type = "hello"

(* C39: a node that has sent its HELLO on a connection sends no further    *)
(* HELLO when it reads the peer's HELLO on that connection, so each side   *)
(* sends one HELLO and the exchange ends.                                  *)
C39_HandshakeEnds ==
    [][\A n \in DOMAIN net, p \in DOMAIN net :
          (hellos_sent(n, p) >= 1 /\ reads_hello(n, p)) =>
              hellos_sent(n, p)' = hellos_sent(n, p)]_vars

(* C40: a call of add_block that returns False leaves the chain, the       *)
(* confirmed balances and the mempool exactly as they were before the call *)
C40_RejectedBlockChangesNothing ==
    [][(ret'.op = "add_block" /\ ~ret'.ok) =>
          /\ chain' = chain
          /\ balances' = balances
          /\ pending_transactions' = pending_transactions]_vars

(* a block has been refused by a chain that has grown and has a mempool *)
C40_Witness ==
    /\ ret.op = "add_block"
    /\ ~ret.ok
    /\ Len(chain) >= 2
    /\ pending_transactions # <<>>

====
